---- MODULE Spec2Model ----
(***************************************************************************)
(* State-machine model of the serverPKI certificate lifecycle code:        *)
(*   - deployCerts / distribute_cert / distribute_tlsa_rrs                 *)
(*       (src/pki/certdist.py)                                             *)
(*   - _authorize (src/pki/issue_LE.py)                                    *)
(*   - Certificate / CertInstance / CertKeyStore identity maps             *)
(*       (src/serverPKI/cert.py)                                           *)
(*   - CertInstance.active (src/serverPKI/cert.py)                         *)
(* Specifications sharing the module: SpecDeploy (deployCerts under all    *)
(* options, reload commands ending with status 0), SpecReload (deployCerts *)
(* with reload commands ending in every way), SpecDist (one               *)
(* distribute_cert call step by step), SpecAuth, SpecAuthLive (_authorize  *)
(* running to its end), SpecIssue (issue_LE_cert around _authorize),       *)
(* SpecIssueRuns (issue_LE_cert run again at later times), SpecDM, SpecCI, *)
(* SpecDelete (SpecCI with delete_instance), SpecSaveLoad                  *)
(* (CertInstance._save and reload by row id), SpecSnap                     *)
(* (Certificate.__init__ beside a                                          *)
(* concurrent writer), SpecLE (issue_LE_cert storing the issued cert and   *)
(* its intermediate), SpecCA (Certificate.ca_cert_meta), SpecPath (the     *)
(* destination directories of a place), SpecActive.                        *)
(***************************************************************************)
EXTENDS Integers, Sequences, FiniteSets, TLC

VARIABLES
    \* ---- deployCerts (certdist.py) ----
    d_pc,            \* position in deployCerts
    d_arg,           \* the instance_id argument deployCerts was called with
    selected,        \* what cert.instance gave for the current cert
    only_host,       \* opts.only_host
    skip_host,       \* opts.skip_host
    no_TLSA,         \* opts.no_TLSA
    tlsa_dns_master, \* Pathes.tlsa_dns_master ('' when the master is local)
    instance_id,     \* the parameter / local variable instance_id
    error_found,
    host_omitted,
    d_cert,          \* index into certs.values()
    disthosts,       \* cert.disthosts of the current cert (fqdns, dict order)
    d_host,          \* index into disthosts
    d_jail,          \* index into the jails of the current disthost
    dh_places,       \* number of places of the current disthost
    d_place,         \* index into the places of the current disthost
    place,           \* the current Place
    d_call,          \* index into the distribute_cert calls of the place
    ci_state,        \* CertInstances.state in the store, by instance id
    mem_au,          \* Certificate.authorized_until (in memory), by CM
    db_au,           \* Certificates.authorized_until (in the store), by CM
    \* ---- DNS side (zone files, zone cache, name server) ----
    zone_dirs,       \* zone directories existing under zone_file_root
    zone_cache,      \* zones noted by updateZoneCache
    bumped,          \* zones whose SOA was bumped after their last write
    unpublished,     \* zones with a file write the name server has not loaded
    \* ---- observation of the current deployCerts run ----
    state_before,    \* state of the selected instance when it was selected
    visited,         \* disthost -> number of places, for entered disthosts
    uploads,         \* files uploaded for the current place, in order
    served,          \* <<fqdn, jail, place>> whose every file was uploaded
    tlsa_done,       \* distribute_tlsa_rrs was called for the current cert
    promoted,        \* "yes"/"no" after lines 144-151 ran for the cert
    reloads,         \* reload commands executed for the current place
    reload_outcomes, \* how the reload commands of this run can end
    reload_result,   \* how the reload of the last distribute_cert call ended
                     \* (forgotten when the next place, jail or disthost is
                     \* entered)
    \* ---- issue_LE_cert (issue_LE.py) ----
    i_pc,            \* position in issue_LE_cert
    i_now,           \* datetime.datetime.now() of line 115
    i_au,            \* cert_meta.authorized_until as issue_LE_cert found it
    \* ---- _authorize (issue_LE.py) ----
    a_pc,            \* position in _authorize
    cert_meta,       \* the CM being authorized
    a_fqdn,          \* index into FQDNs of the loop being run
    authz,           \* authz: fqdn -> txt_record, for the fqdns requested
    zones,           \* zones: zone -> list of fqdns (line 240-247)
    include,         \* content of each zone's include file (list of lines)
    done,
    failed,
    authorized_until,\* the local variable of _authorize
    polls,           \* get_authorization calls made for the current fqdn
    reported,        \* expiry times the server reported with status 'valid'
    a_log,           \* what _authorize did, in order
    \* ---- the data model (serverPKI/cert.py) ----
    all_CMs,         \* _all_CMs: name -> Certificate object, None if absent
    n_objs,          \* Certificate objects allocated so far (object ids)
    cert_instances,  \* cm.cert_instances: name -> list of CIs (by row_id)
    ca_cert_ci,      \* ci.ca_cert_ci of each CI in memory (by row_id)
    cksd,            \* ci.cksd of each CI in memory: algo -> CKS or None
    cert_key_stores, \* CertKeyStore._cert_key_stores: hash -> CKS or None
    cks_objs,        \* the CertKeyStore objects constructed, by object id
    db_ci,           \* table CertInstances, row_id = index
    db_ckd,          \* table CertKeyData, row_id = index
    returned,        \* name -> Certificate objects CM()/Certificate() gave
    new_cis,         \* CIs constructed without row_id, in no cm.cert_instances
    last_call,       \* the last operation on the data model and its outcome
    \* ---- CertInstance.active (serverPKI/cert.py) ----
    not_before,      \* ci.not_before
    not_after,       \* ci.not_after
    clock,           \* the wall clock datetime.datetime.now() reads
    read_nows,       \* the two clock readings of the last evaluation
    is_active,       \* what the property gave: "True", "False", or None
    \* ---- distribute_cert (certdist.py), one call step by step ----
    x_pc,            \* position in distribute_cert
    x_caller,        \* what deployCerts does behind the call
    x_jail,          \* the argument jail
    x_reload_command,\* place.reload_command is set
    dest_dir,        \* dest_dir on the disthost: "missing", "exists", or
                     \* "created" by this call
    x_cwd,           \* working directory of the SFTP session
    x_put,           \* directory the file was uploaded into, or None
    ssh_open,        \* the SSHClient is connected
    sftp_open,       \* the SFTP session is open
    chan_open,       \* the channel of the reload command is open
    x_exc,           \* the error that is propagating, or None
    exit_ready,      \* chan.exit_status_ready()
    timed_out,
    data,            \* what the last chan.recv returned
    remote_result_msg, \* number of chunks collected
    es_reads,        \* calls of chan.recv_exit_status()
    x_recvs,         \* calls of chan.recv(), counted up to MaxRecv
    had_timeout,     \* a chan.recv() raised socket.timeout
    x_late,          \* chunks collected after a receive timeout
    \* ---- CertInstance._save and reload by row_id (cert.py) ----
    s_pc,            \* "unsaved" (the object differs from its row),
                     \* "saved", "loaded" or "raised"
    s_ci,            \* the CertInstance object that is saved
    s_exc,           \* the error _save or the load ended with, or None
    s_rows,          \* table CertInstances, row id = index
    s_ckd,           \* table CertKeyData
    s_loaded,        \* the CertInstance object built from the row id
    \* ---- Certificate.__init__ beside a concurrent writer (cert.py) ----
    t_pc,            \* position of the constructor
    t_store,         \* the committed state of the store
    t_hist,          \* every state the store was committed in
    t_commits,       \* statements other processes have committed
    t_view,          \* what the constructor has put into memory
    t_todo,          \* rows of q_instances not yet loaded
    \* ---- issue_LE_cert: storing the issued cert (issue_LE.py) ----
    le_pc,           \* position in issue_LE_cert
    le_rows,         \* table CertInstances, row id = index
    le_intcert,      \* fingerprint of the intermediate cert of this run
    le_instance_id,  \* intcert_instance_id
    le_runs,         \* runs of issue_LE_cert that got a cert issued
    \* ---- Certificate.ca_cert_meta (cert.py) ----
    ca_all_CMs,      \* _all_CMs for the names of CA certs
    ca_db,           \* the Certificates / Subjects rows of these names
    ca_result,       \* the last call of ca_cert_meta and what it gave
    \* ---- the destination directories of a place (certdist.py) ----
    p_args,          \* jailroot, jail, place.cert_path and place.key_path
    p_dest           \* dest_path, dest_dir and key_dest_dir, once computed

deployVars == <<d_pc, d_arg, selected, only_host, skip_host, no_TLSA, tlsa_dns_master,
                instance_id, error_found,
                host_omitted, d_cert, disthosts, d_host, d_jail, dh_places,
                d_place, place, d_call, ci_state,
                state_before, visited, uploads, served, tlsa_done, promoted,
                reloads, reload_outcomes, reload_result>>
auVars == <<mem_au, db_au>>
dnsVars == <<zone_dirs, zone_cache, bumped, unpublished>>

issueVars == <<i_pc, i_now, i_au>>

authVars == <<issueVars, a_pc, cert_meta, a_fqdn, authz, zones, include, done, failed,
              authorized_until, polls, reported, a_log>>

dmVars == <<all_CMs, n_objs, cert_instances, ca_cert_ci, cksd,
            cert_key_stores, cks_objs, db_ci, db_ckd, returned, new_cis,
            last_call>>

activeVars == <<not_before, not_after, clock, read_nows, is_active>>

argVars == <<x_jail, x_reload_command>>
sftpVars == <<dest_dir, x_cwd, x_put>>
handleVars == <<ssh_open, sftp_open, chan_open>>
loopVars == <<exit_ready, timed_out, data, remote_result_msg, es_reads,
              x_recvs, had_timeout, x_late>>
distVars == <<x_pc, x_caller, x_exc, argVars, sftpVars, handleVars, loopVars>>

saveLoadVars == <<s_pc, s_ci, s_exc, s_rows, s_ckd, s_loaded>>

snapVars == <<t_pc, t_store, t_hist, t_commits, t_view, t_todo>>

leVars == <<le_pc, le_rows, le_intcert, le_instance_id, le_runs>>

caVars == <<ca_all_CMs, ca_db, ca_result>>

pathVars == <<p_args, p_dest>>

vars == <<deployVars, auVars, dnsVars, authVars, dmVars, activeVars,
          distVars, saveLoadVars, snapVars, leVars, caVars, pathVars>>

\* what a step of deployCerts, of _authorize, and of the data model cannot
\* touch
nonDeployVars == <<authVars, dmVars, activeVars, distVars, saveLoadVars,
                   snapVars, leVars, caVars, pathVars>>

nonAuthVars == <<deployVars, dmVars, activeVars, distVars, saveLoadVars,
                 snapVars, leVars, caVars, pathVars>>

nonDMVars == <<deployVars, auVars, dnsVars, authVars, activeVars,
               distVars, saveLoadVars, snapVars, leVars, caVars, pathVars>>

nonActiveVars == <<deployVars, auVars, dnsVars, authVars, dmVars,
                   distVars, saveLoadVars, snapVars, leVars, caVars, pathVars>>

nonDistVars == <<deployVars, auVars, dnsVars, authVars, dmVars, activeVars,
                 saveLoadVars, snapVars, leVars, caVars, pathVars>>

nonSaveLoadVars == <<deployVars, auVars, dnsVars, authVars, dmVars,
                     activeVars, distVars, snapVars, leVars, caVars, pathVars>>

nonSnapVars == <<deployVars, auVars, dnsVars, authVars, dmVars, activeVars,
                 distVars, saveLoadVars, leVars, caVars, pathVars>>

nonLEVars == <<deployVars, auVars, dnsVars, authVars, dmVars, activeVars,
               distVars, saveLoadVars, snapVars, caVars, pathVars>>

nonCAVars == <<deployVars, auVars, dnsVars, authVars, dmVars, activeVars,
               distVars, saveLoadVars, snapVars, leVars, pathVars>>

nonPathVars == <<deployVars, auVars, dnsVars, authVars, dmVars, activeVars,
                 distVars, saveLoadVars, snapVars, leVars, caVars>>

\* Python's None where a number (an id, a time) is expected, where a string is
\* expected, and where a Place is expected
None == 0

NoneStr == "None"

NoPlace == [cert_file_type |-> "cert only", key_path |-> FALSE,
            reload_command |-> FALSE]

\* ------------------------------------------------------------------------
\* Bounds of the model
\* ------------------------------------------------------------------------
MaxPlaces == 2

\* get_authorization answers 'pending' at most MaxPoll times per fqdn
MaxPoll == 1

\* expiry times reported by the ACME server are 1..MaxExpires
MaxExpires == 3

\* ------------------------------------------------------------------------
\* The world the runs are drawn from
\* ------------------------------------------------------------------------
Hosts == {"h1", "h2"}

\* disthost rows: jails (dict order) and jailroot of each disthost
DistHost == [h1 |-> [jails |-> <<>>, jailroot |-> ""],
             h2 |-> [jails |-> <<"j1">>, jailroot |-> "jr"]]

\* cert.disthosts as loaded: no disthost, one, or both in either order
DistHostLists == {<<>>, <<"h1">>, <<"h2">>, <<"h1", "h2">>, <<"h2", "h1">>}

\* an FQDN is the sequence of its labels, as fqdn.split('.') gives them
CertMeta == [cm1 |-> [name |-> <<"www", "ex", "org">>, altnames |-> <<>>,
                      cert_type |-> "LE", subject_type |-> "server"],
             cm2 |-> [name |-> <<"db", "ex", "org">>,
                      altnames |-> << <<"sql", "db", "ex", "org">> >>,
                      cert_type |-> "local", subject_type |-> "server"],
             cm3 |-> [name |-> <<"ex", "org">>,
                      altnames |-> << <<"a", "b", "ex", "org">>,
                                      <<"x", "net">> >>,
                      cert_type |-> "LE", subject_type |-> "server"]]

CMs == DOMAIN CertMeta

\* certs.values(), in iteration order
certs == <<"cm1", "cm2">>

\* CertInstances rows of each cert
InstancesOf == [cm1 |-> {1, 2}, cm2 |-> {3}, cm3 |-> {}]
Instances == UNION {InstancesOf[c] : c \in CMs}

CertStates == {"reserved", "issued", "prepublished", "deployed", "revoked",
               "expired", "archived"}

PlaceCertFileTypes == {"cert only", "separate", "combine key",
                       "combine cacert", "combine both"}

\* a Place as deployCerts reads it
Places == [cert_file_type : PlaceCertFileTypes, key_path : BOOLEAN,
           reload_command : BOOLEAN]

Range(s) == {s[i] : i \in 1..Len(s)}

Max(S) == CHOOSE x \in S : \A y \in S : y <= x

\* ------------------------------------------------------------------------
\* certdist.py: file names (lines 304-320)
\* ------------------------------------------------------------------------
key_name(subject, subject_type) == <<subject, subject_type, "key.pem">>

cert_name(subject, subject_type) == <<subject, subject_type, "cert.pem">>

cert_cacert_name(subject, subject_type) ==
    <<subject, subject_type, "cert_cacert.pem">>

cert_cacert_chain_name(subject, subject_type) ==
    <<subject, subject_type, "cert_cacert_chain.pem">>

key_cert_name(subject, subject_type) ==
    <<subject, subject_type, "key_cert.pem">>

key_cert_cacert_name(subject, subject_type) ==
    <<subject, subject_type, "key_cert_cacert.pem">>

\* ------------------------------------------------------------------------
\* deployCerts: the distribute_cert calls made for one place (lines 99-138),
\* in order.  fd is the text written (parts of the instance), jail the last
\* argument of distribute_cert (None for a key file).
\* ------------------------------------------------------------------------
\* (a place of type 'combine key' gets the key file as well)
SendsKeyFile_combineKeyToo(cert_file_type) ==
    cert_file_type \in {"separate", "combine cacert", "combine key"}

\* lines 115 and 136: the branches that distribute the key in a
\* file of its own
SendsKeyFile(cert_file_type) ==
    cert_file_type \in {"separate", "combine cacert"}

PlaceCalls(pl, cm, jail) ==
    LET m == CertMeta[cm]
        call(fd, dir, name, jl) ==
            [fd |-> fd, dest_dir |-> dir, file_name |-> name, jail |-> jl]
        key(dir) == call(<<"key">>, dir,
                         key_name(m.name, m.subject_type), NoneStr)
        keyfile == IF SendsKeyFile(pl.cert_file_type)
                   THEN << key("cert_path") >> ELSE <<>>
        chain == IF m.cert_type = "LE"
                 THEN << call(<<"cert", "cacert">>, "cert_path",
                              cert_cacert_chain_name(m.name, m.subject_type),
                              jail) >>
                 ELSE <<>>
        last(fd, name) == call(fd, "cert_path", name, jail)
    IN  IF pl.key_path
        THEN << key("key_path"),
                last(<<"cert">>, cert_name(m.name, m.subject_type)) >>
        ELSE CASE pl.cert_file_type = "separate" ->
                    keyfile \o chain \o
                    << last(<<"cert">>, cert_name(m.name, m.subject_type)) >>
               [] pl.cert_file_type = "combine key" ->
                    keyfile \o chain \o
                    << last(<<"key", "cert">>,
                            key_cert_name(m.name, m.subject_type)) >>
               [] pl.cert_file_type = "combine both" ->
                    keyfile \o
                    << last(<<"key", "cert", "cacert">>,
                            key_cert_cacert_name(m.name, m.subject_type)) >>
               [] pl.cert_file_type = "combine cacert" ->
                    keyfile \o
                    << last(<<"cert", "cacert">>,
                            cert_cacert_name(m.name, m.subject_type)) >>
               [] OTHER ->
                    keyfile \o
                    << last(<<"cert">>, cert_name(m.name, m.subject_type)) >>

\* for jail in ( dh['jails'].keys() or ('',) )   (line 84)
JailsOf(fqdn) ==
    IF DistHost[fqdn].jails = <<>> THEN <<"">> ELSE DistHost[fqdn].jails

\* (only skip_host is looked at)
HostSkipped_skipOnly(fqdn) == fqdn \in skip_host

\* lines 74-79: the disthost is left out of this run
HostSkipped(fqdn) ==
    \/ fqdn \in skip_host
    \/ (Cardinality(only_host) > 0 /\ fqdn \notin only_host)

\* (the run goes on without an instance)
AfterSelect_goOn(result) == "for_host"

\* lines 63-67: without a result deployCerts raises MyException
AfterSelect(result) == IF result = None THEN "raise" ELSE "for_host"

\* (a disthost without places is passed over)
HasNoPlaces_never(np) == FALSE

\* line 90: if not dh['places']
HasNoPlaces(np) == np = 0

\* (authorized_until cleared for every cert)
ClearsAuthorizedUntil_always(cm) == TRUE

\* line 151: if cert.cert_type == 'local'
ClearsAuthorizedUntil(cm) == CertMeta[cm].cert_type = "local"

\* line 144: the condition under which the instance is promoted
PromoteWanted_always == TRUE

PromoteWanted == ~host_omitted

\* line 141: the condition under which distribute_tlsa_rrs is called
TlsaWanted_never == FALSE

TlsaWanted == ~no_TLSA

\* distribute_cert (lines 208-228): where deployCerts continues after a call
\* that ended with `outcome`; nothing in deployCerts catches an error
AfterDistribute_swallow(outcome) == "continue"

AfterDistribute(outcome) == IF outcome = "ok" THEN "continue" ELSE "raise"

\* how the reload command of a distribute_cert call ends (lines 272-301):
\* exit status 0, a receive timeout, a non-zero exit status, or output that
\* is not ASCII (data.decode('ascii') at line 288 raises UnicodeDecodeError)
ReloadOutcomes == {"ok", "recv_timeout", "nonzero_exit", "decode_error"}

ReloadTroubles == {"recv_timeout", "nonzero_exit"}

\* (a reload that timed out or failed ends the run)
AfterReload_abortOnTrouble(r) == IF r = "ok" THEN "continue" ELSE "raise"

\* lines 284-301: a timeout is logged and ends the collection, a non-zero
\* exit status is logged as a warning; only an error that is not caught
\* leaves distribute_cert
AfterReload(r) == IF r = "decode_error" THEN "raise" ELSE "continue"

DistributeOutcomes == {"ok", "connect_failed", "mkdir_failed", "put_failed"}

\* cert.instance(instance_id): the instance deployCerts is handed for a cert.
\* Without an id: the most recent active instance of the cert, if any.
\* With an id: the instance of that id; for an id that is no instance of
\* this cert either answer (none, or the foreign instance) is allowed for.
InstanceResults(cm, id, active) ==
    IF id = None
    THEN IF active = {} THEN {None} ELSE {Max(active)}
    ELSE IF id \in InstancesOf[cm] THEN {id} ELSE {None, id}

\* ------------------------------------------------------------------------
\* cert.py: Certificate.zone_and_FQDN_from_altnames (lines 501-519)
\* ------------------------------------------------------------------------
\* '.'.join(fqdn_tags[-i::])
Suffix(fqdn, i) == SubSeq(fqdn, Len(fqdn) - i + 1, Len(fqdn))

\* the inner loop: i runs from 1 upwards and stops at the first suffix whose
\* directory exists
ZoneOf(fqdn) ==
    LET found == {i \in 1..Len(fqdn) : Suffix(fqdn, i) \in zone_dirs}
    IN  IF found = {} THEN <<>>
        ELSE Suffix(fqdn, CHOOSE i \in found : \A j \in found : i <= j)

AltNames(cm) == <<CertMeta[cm].name>> \o CertMeta[cm].altnames

zone_and_FQDN_from_altnames(cm) ==
    LET kept == SelectSeq(AltNames(cm), LAMBDA f : ZoneOf(f) # <<>>)
    IN  [i \in 1..Len(kept) |-> <<ZoneOf(kept[i]), kept[i]>>]

\* ------------------------------------------------------------------------
\* cert.py: Certificate.update_authorized_until (lines 565-586).  The
\* attribute is assigned before the assertion; the store is written after it.
\* ------------------------------------------------------------------------
update_authorized_until(cm, until, mem, db) ==
    LET ok == until # None \/ CertMeta[cm].cert_type = "local"
    IN  [mem |-> [mem EXCEPT ![cm] = until],
         db |-> IF ok THEN [db EXCEPT ![cm] = until] ELSE db,
         raised |-> ~ok]

\* ------------------------------------------------------------------------
\* DNS control procedures (pki.utils): the zone cache collects the zones
\* whose files were written; the SOA update bumps the serial of the cached
\* zones; the reload makes the name server load the bumped zones.
\* ------------------------------------------------------------------------
\* a zone file of each zone in zs is written and updateZoneCache(zone) called
WriteZones(zs) ==
    /\ zone_cache' = zone_cache \cup zs
    /\ bumped' = bumped \ zs
    /\ unpublished' = unpublished \cup zs
    /\ UNCHANGED zone_dirs

updateSOAofUpdatedZones ==
    /\ bumped' = bumped \cup zone_cache
    /\ zone_cache' = {}
    /\ UNCHANGED <<zone_dirs, unpublished>>

reloadNameServer ==
    /\ unpublished' = unpublished \ bumped
    /\ UNCHANGED <<zone_dirs, zone_cache, bumped>>

\* ========================================================================
\* deployCerts (certdist.py lines 31-155)
\* ========================================================================
Cert == certs[d_cert]

Fqdn == disthosts[d_host]

Jail == JailsOf(Fqdn)[d_jail]

NoObservation ==
    /\ visited' = <<>>
    /\ uploads' = <<>>
    /\ served' = {}
    /\ tlsa_done' = None
    /\ promoted' = NoneStr
    /\ reloads' = 0
    /\ reload_result' = NoneStr

\* ------------------------------------------------------------------------
\* The store the data model of serverPKI/cert.py is loaded from
\* ------------------------------------------------------------------------
\* Certificate objects allocated, rows of CertInstances, CertKeyStore
\* objects constructed
MaxObjects == 3
MaxRows == 4
MaxCKS == 3
MaxNewCIs == 1

\* cert names of table Subjects, and the subject_type of each
Names == {"ca", "srv"}
Subjects == [ca |-> "CA", srv |-> "server"]

\* the certificates, and the SHA-256 fingerprint of each in upper-case hex
X509Certs == {"certA", "certB", "certC"}
Fingerprint == [certA |-> "3FA1", certB |-> "9C0E", certC |-> "D477"]
Hashes == {Fingerprint[c] : c \in X509Certs}

\* a cert is handled as PEM bytes (DB storage format) or as an
\* x509.Certificate object
load_pem_x509_certificate(pem) == [form |-> "x509", body |-> pem.body]
public_bytes(cert) == [form |-> "pem", body |-> cert.body]

\* tables CertInstances and CertKeyData before the process starts: the CA's
\* instance (issued by itself) and two instances of srv issued by it; the
\* first two have a cert each, the newest has none yet
InitCertInstances == << [cm |-> "ca", ca_cert_ci_id |-> 1],
                        [cm |-> "srv", ca_cert_ci_id |-> 1],
                        [cm |-> "srv", ca_cert_ci_id |-> 1] >>
InitCertKeyData == << [ci |-> 1, encryption_algo |-> "rsa",
                       cert |-> [form |-> "pem", body |-> "certA"]],
                      [ci |-> 2, encryption_algo |-> "rsa",
                       cert |-> [form |-> "pem", body |-> "certB"]] >>

\* lines 143-146: the values EncAlgoCKS accepts
EncAlgoCKS == {"rsa", "ec"}

\* line 326: self.encryption_algo = EncAlgo(row['encryption_algo'])
EncryptionAlgo == [ca |-> "rsa", srv |-> "rsa plus ec"]

\* line 731: self.cksd = {} of a CI
NoCKS == [a \in EncAlgoCKS |-> None]

NoOperation == [op |-> NoneStr, arg |-> NoneStr, result |-> NoneStr,
                all_CMs |-> [n \in Names |-> None],
                dup |-> NoneStr,
                cert_key_stores |-> [h \in Hashes |-> None]]

\* the locals of distribute_cert before the reload command (lines 277-278)
\* and the observation of the output loop
LoopLocals ==
    /\ exit_ready = FALSE
    /\ timed_out = FALSE
    /\ data = NoneStr
    /\ remote_result_msg = 0
    /\ es_reads = 0
    /\ x_recvs = 0
    /\ had_timeout = FALSE
    /\ x_late = 0

\* no distribute_cert call is looked at step by step
IdleDist ==
    /\ x_pc = "idle"
    /\ x_caller = "idle"
    /\ x_exc = NoneStr
    /\ x_jail = NoneStr
    /\ x_reload_command = FALSE
    /\ dest_dir = "missing"
    /\ x_cwd = "home"
    /\ x_put = NoneStr
    /\ ssh_open = FALSE
    /\ sftp_open = FALSE
    /\ chan_open = FALSE
    /\ LoopLocals

\* no destination directory is computed
IdlePath ==
    /\ p_args = NoneStr
    /\ p_dest = NoneStr

\* ca_cert_meta is not called
IdleCA ==
    /\ ca_all_CMs = <<>>
    /\ ca_db = <<>>
    /\ ca_result = NoneStr

\* no issued cert is stored
IdleLE ==
    /\ le_pc = "idle"
    /\ le_rows = <<>>
    /\ le_intcert = NoneStr
    /\ le_instance_id = None
    /\ le_runs = 0

\* no Certificate is constructed beside a writer
IdleSnap ==
    /\ t_pc = "idle"
    /\ t_store = NoneStr
    /\ t_hist = {}
    /\ t_commits = 0
    /\ t_view = NoneStr
    /\ t_todo = <<>>

\* no CertInstance is saved and reloaded
IdleSaveLoad ==
    /\ s_pc = "idle"
    /\ s_ci = NoneStr
    /\ s_exc = NoneStr
    /\ s_rows = <<>>
    /\ s_ckd = <<>>
    /\ s_loaded = NoneStr

\* no CertInstance is asked whether it is active
IdleActive ==
    /\ not_before = 0
    /\ not_after = 0
    /\ clock = 0
    /\ read_nows = <<>>
    /\ is_active = NoneStr

\* a fresh process: nothing registered, nothing loaded
IdleDM ==
    /\ all_CMs = [n \in Names |-> None]
    /\ n_objs = 0
    /\ cert_instances = [n \in Names |-> <<>>]
    /\ ca_cert_ci = [r \in 1..MaxRows |-> None]
    /\ cksd = [r \in 1..MaxRows |-> NoCKS]
    /\ cert_key_stores = [h \in Hashes |-> None]
    /\ cks_objs = <<>>
    /\ db_ci = InitCertInstances
    /\ db_ckd = InitCertKeyData
    /\ returned = [n \in Names |-> {}]
    /\ new_cis = <<>>
    /\ last_call = NoOperation

\* _authorize is not running
\* issue_LE_cert is not running
IdleIssue ==
    /\ i_pc = "idle"
    /\ i_now = None
    /\ i_au = None

IdleAuth ==
    /\ IdleIssue
    /\ a_pc = "idle"
    /\ cert_meta = "cm1"
    /\ a_fqdn = 1
    /\ authz = <<>>
    /\ zones = <<>>
    /\ include = <<>>
    /\ done = {}
    /\ failed = {}
    /\ authorized_until = None
    /\ polls = 0
    /\ reported = {}
    /\ a_log = <<>>

\* the state of each instance in the store before a run
InitialState(i) == IF i = 2 THEN "prepublished" ELSE "issued"

\* the store and the DNS side before a run
InitStore ==
    /\ ci_state = [i \in Instances |-> InitialState(i)]
    /\ zone_cache = {}
    /\ bumped = {}
    /\ unpublished = {}

\* the locals and the observation of deployCerts before its first cert
DeployLocals ==
    /\ error_found = FALSE
    /\ host_omitted = FALSE
    /\ d_cert = 1
    /\ disthosts = <<>>
    /\ d_host = 1
    /\ d_jail = 1
    /\ dh_places = 0
    /\ d_place = 1
    /\ place = NoPlace
    /\ d_call = 1
    /\ state_before = NoneStr
    /\ visited = <<>>
    /\ uploads = <<>>
    /\ served = {}
    /\ tlsa_done = None
    /\ promoted = NoneStr
    /\ reloads = 0
    /\ reload_result = NoneStr

\* deployCerts is not running
IdleDeploy ==
    /\ d_pc = "idle"
    /\ only_host = {}
    /\ skip_host = {}
    /\ no_TLSA = FALSE
    /\ tlsa_dns_master = ""
    /\ instance_id = None
    /\ d_arg = None
    /\ selected = "unset"
    /\ reload_outcomes = {}
    /\ DeployLocals

InitDeploy ==
    /\ IdleAuth
    /\ IdleDM
    /\ IdleActive
    /\ IdleDist
    /\ IdleSaveLoad
    /\ IdleSnap
    /\ IdleLE
    /\ IdleCA
    /\ IdlePath
    /\ InitStore
    /\ d_pc = "for_cert"
    /\ only_host \in SUBSET Hosts
    /\ skip_host \in SUBSET Hosts
    /\ no_TLSA \in BOOLEAN
    /\ tlsa_dns_master \in {"", "ns.remote"}
    /\ instance_id \in {None} \cup Instances
    /\ d_arg = instance_id
    /\ selected = "unset"
    /\ reload_outcomes = {"ok"}
    /\ DeployLocals
    /\ mem_au = [c \in CMs |-> 1]
    /\ db_au = [c \in CMs |-> 1]
    /\ zone_dirs = {<<"ex", "org">>}

\* line 59, loop exhausted
CertsDone ==
    /\ d_pc = "for_cert"
    /\ UNCHANGED nonDeployVars
    /\ d_cert > Len(certs)
    /\ d_pc' = "soa"
    /\ UNCHANGED <<only_host, skip_host, no_TLSA, tlsa_dns_master,
                   d_arg, selected, reload_outcomes,
                   instance_id, error_found,
                   host_omitted, d_cert, disthosts, d_host, d_jail,
                   dh_places, d_place, place, d_call, ci_state,
                   state_before, visited, uploads, served, tlsa_done,
                   promoted, reloads,
                   reload_result, auVars, dnsVars>>

\* line 61: a cert without disthosts is passed over
CertSkip ==
    /\ d_pc = "for_cert"
    /\ UNCHANGED nonDeployVars
    /\ d_cert <= Len(certs)
    /\ disthosts' = <<>>
    /\ d_cert' = d_cert + 1
    /\ state_before' = NoneStr
    /\ selected' = "unset"
    /\ NoObservation
    /\ UNCHANGED <<d_pc, only_host, skip_host, no_TLSA, tlsa_dns_master,
                   d_arg, reload_outcomes,
                   instance_id,
                   error_found, host_omitted, d_host, d_jail, dh_places,
                   d_place, place, d_call, ci_state, auVars, dnsVars>>

\* lines 63-70: the instance is selected, or the run ends with MyException
CertSelect ==
    /\ d_pc = "for_cert"
    /\ UNCHANGED nonDeployVars
    /\ d_cert <= Len(certs)
    /\ \E dhl \in DistHostLists \ {<<>>}, active \in SUBSET InstancesOf[Cert] :
       \E result \in InstanceResults(Cert, instance_id, active) :
          /\ disthosts' = dhl
          /\ selected' = IF result = None THEN "none" ELSE "instance"
          /\ d_pc' = AfterSelect(result)
          /\ IF result = None
             THEN UNCHANGED <<instance_id, host_omitted, state_before>>
             ELSE /\ instance_id' = result
                  /\ host_omitted' = FALSE
                  /\ state_before' = ci_state[result]
    /\ d_host' = 1
    /\ NoObservation
    /\ UNCHANGED <<only_host, skip_host, no_TLSA, tlsa_dns_master,
                   d_arg, reload_outcomes,
                   error_found, d_cert,
                   d_jail, dh_places, d_place, place, d_call, ci_state,
                   auVars, dnsVars>>

\* lines 72-79: a disthost left out by skip_host or only_host
HostOmit ==
    /\ d_pc = "for_host"
    /\ UNCHANGED nonDeployVars
    /\ reload_result' = NoneStr
    /\ d_host <= Len(disthosts)
    /\ HostSkipped(Fqdn)
    /\ host_omitted' = TRUE
    /\ d_host' = d_host + 1
    /\ UNCHANGED <<d_pc, only_host, skip_host, no_TLSA, tlsa_dns_master,
                   d_arg, selected, reload_outcomes,
                   instance_id,
                   error_found, d_cert, disthosts, d_jail, dh_places,
                   d_place, place, d_call, ci_state, state_before, visited,
                   uploads, served, tlsa_done, promoted, reloads, auVars,
                   dnsVars>>

\* lines 80-84: a disthost that is served; dh is read
HostEnter ==
    /\ d_pc = "for_host"
    /\ UNCHANGED nonDeployVars
    /\ reload_result' = NoneStr
    /\ d_host <= Len(disthosts)
    /\ ~HostSkipped(Fqdn)
    /\ \E np \in 0..MaxPlaces :
          /\ dh_places' = np
          /\ visited' = (Fqdn :> np) @@ visited
    /\ d_jail' = 1
    /\ d_pc' = "for_jail"
    /\ UNCHANGED <<only_host, skip_host, no_TLSA, tlsa_dns_master,
                   d_arg, selected, reload_outcomes,
                   instance_id, error_found,
                   host_omitted, d_cert, disthosts, d_host, d_place, place,
                   d_call, ci_state, state_before, uploads, served,
                   tlsa_done, promoted, reloads, auVars, dnsVars>>

\* line 72, loop exhausted
HostsDone ==
    /\ d_pc = "for_host"
    /\ UNCHANGED nonDeployVars
    /\ d_host > Len(disthosts)
    /\ d_pc' = "tlsa"
    /\ UNCHANGED <<only_host, skip_host, no_TLSA, tlsa_dns_master,
                   d_arg, selected, reload_outcomes,
                   instance_id, error_found,
                   host_omitted, d_cert, disthosts, d_host, d_jail,
                   dh_places, d_place, place, d_call, ci_state,
                   state_before, visited, uploads, served, tlsa_done,
                   promoted, reloads,
                   reload_result, auVars, dnsVars>>

\* lines 90-93: the disthost has no place
MissingPlace ==
    /\ d_pc = "for_jail"
    /\ UNCHANGED nonDeployVars
    /\ reload_result' = NoneStr
    /\ d_jail <= Len(JailsOf(Fqdn))
    /\ HasNoPlaces(dh_places)
    /\ error_found' = TRUE
    /\ d_pc' = "return_false"
    /\ UNCHANGED <<only_host, skip_host, no_TLSA, tlsa_dns_master,
                   d_arg, selected, reload_outcomes,
                   instance_id, host_omitted,
                   d_cert, disthosts, d_host, d_jail, dh_places, d_place,
                   place, d_call, ci_state, state_before, visited, uploads,
                   served, tlsa_done, promoted, reloads, auVars, dnsVars>>

\* lines 84-95
JailEnter ==
    /\ d_pc = "for_jail"
    /\ UNCHANGED nonDeployVars
    /\ reload_result' = NoneStr
    /\ d_jail <= Len(JailsOf(Fqdn))
    /\ ~HasNoPlaces(dh_places)
    /\ d_place' = 1
    /\ d_pc' = "for_place"
    /\ UNCHANGED <<only_host, skip_host, no_TLSA, tlsa_dns_master,
                   d_arg, selected, reload_outcomes,
                   instance_id, error_found,
                   host_omitted, d_cert, disthosts, d_host, d_jail,
                   dh_places, place, d_call, ci_state, state_before, visited,
                   uploads, served, tlsa_done, promoted, reloads, auVars,
                   dnsVars>>

\* line 84, loop exhausted
JailsDone ==
    /\ d_pc = "for_jail"
    /\ UNCHANGED nonDeployVars
    /\ d_jail > Len(JailsOf(Fqdn))
    /\ d_host' = d_host + 1
    /\ d_pc' = "for_host"
    /\ UNCHANGED <<only_host, skip_host, no_TLSA, tlsa_dns_master,
                   d_arg, selected, reload_outcomes,
                   instance_id, error_found,
                   host_omitted, d_cert, disthosts, d_jail, dh_places,
                   d_place, place, d_call, ci_state, state_before, visited,
                   uploads, served, tlsa_done, promoted, reloads,
                   reload_result, auVars,
                   dnsVars>>

\* lines 95-110: the place is read
PlaceEnter ==
    /\ d_pc = "for_place"
    /\ UNCHANGED nonDeployVars
    /\ d_place <= dh_places
    /\ place' \in Places
    /\ d_call' = 1
    /\ uploads' = <<>>
    /\ reloads' = 0
    /\ reload_result' = NoneStr
    /\ d_pc' = "distribute"
    /\ UNCHANGED <<only_host, skip_host, no_TLSA, tlsa_dns_master,
                   d_arg, selected, reload_outcomes,
                   instance_id, error_found,
                   host_omitted, d_cert, disthosts, d_host, d_jail,
                   dh_places, d_place, ci_state, state_before, visited,
                   served, tlsa_done, promoted, auVars, dnsVars>>

\* line 95, loop exhausted
PlacesDone ==
    /\ d_pc = "for_place"
    /\ UNCHANGED nonDeployVars
    /\ d_place > dh_places
    /\ d_jail' = d_jail + 1
    /\ d_pc' = "for_jail"
    /\ place' = NoPlace
    /\ uploads' = <<>>
    /\ reloads' = 0
    /\ UNCHANGED reload_result
    /\ UNCHANGED <<only_host, skip_host, no_TLSA, tlsa_dns_master,
                   d_arg, selected, reload_outcomes,
                   instance_id, error_found,
                   host_omitted, d_cert, disthosts, d_host, dh_places,
                   d_place, d_call, ci_state, state_before, visited,
                   served, tlsa_done, promoted, auVars, dnsVars>>

\* one distribute_cert call of the place (lines 110-138, 186-301): the
\* upload, and the reload command when the call has a jail and the place a
\* reload_command (line 265)
Distribute ==
    /\ d_pc = "distribute"
    /\ UNCHANGED nonDeployVars
    /\ LET calls == PlaceCalls(place, Cert, Jail)
           call == calls[d_call]
       IN  \E outcome \in DistributeOutcomes :
           LET ups == IF outcome = "ok"
                      THEN Append(uploads, [file_name |-> call.file_name,
                                            fd |-> call.fd,
                                            dest_dir |-> call.dest_dir])
                      ELSE uploads
               reloading == /\ outcome = "ok"
                            /\ call.jail \notin {NoneStr, ""}
                            /\ place.reload_command
           IN
           \E r \in IF reloading THEN reload_outcomes ELSE {NoneStr} :
           /\ uploads' = ups
           /\ reloads' = IF reloading THEN reloads + 1 ELSE reloads
           /\ reload_result' = r
           /\ IF \/ AfterDistribute(outcome) = "raise"
                 \/ (reloading /\ AfterReload(r) = "raise")
              THEN /\ d_pc' = "raise"
                   /\ UNCHANGED <<d_call, d_place, served>>
              ELSE IF d_call < Len(calls)
              THEN /\ d_call' = d_call + 1
                   /\ UNCHANGED <<d_pc, d_place, served>>
              ELSE /\ d_pc' = "for_place"
                   /\ d_place' = d_place + 1
                   /\ served' = IF Len(ups) = Len(calls)
                                THEN served \cup {<<Fqdn, Jail, d_place>>}
                                ELSE served
                   /\ UNCHANGED d_call
    /\ UNCHANGED <<only_host, skip_host, no_TLSA, tlsa_dns_master,
                   d_arg, selected, reload_outcomes,
                   instance_id, error_found,
                   host_omitted, d_cert, disthosts, d_host, d_jail,
                   dh_places, place, ci_state, state_before, visited,
                   tlsa_done, promoted, auVars, dnsVars>>

\* lines 141-142 and distribute_tlsa_rrs (lines 325-361)
Tlsa ==
    /\ d_pc = "tlsa"
    /\ UNCHANGED nonDeployVars
    /\ IF ~TlsaWanted
       THEN /\ d_pc' = "promote"
            /\ UNCHANGED <<tlsa_done, dnsVars>>
       ELSE \E tlsaprefixes \in {{}, {"_443._tcp"}} :
            /\ tlsa_done' = instance_id
            /\ IF tlsaprefixes = {}
               THEN d_pc' = "promote" /\ UNCHANGED dnsVars
               ELSE IF tlsa_dns_master = ""
               THEN /\ d_pc' = "promote"
                    /\ WriteZones({zf[1] : zf \in
                            Range(zone_and_FQDN_from_altnames(Cert))})
               ELSE d_pc' = "exit" /\ UNCHANGED dnsVars
    /\ UNCHANGED <<only_host, skip_host, no_TLSA, tlsa_dns_master,
                   d_arg, selected, reload_outcomes,
                   instance_id, error_found,
                   host_omitted, d_cert, disthosts, d_host, d_jail,
                   dh_places, d_place, place, d_call, ci_state,
                   state_before, visited, uploads, served, promoted,
                   reloads,
                   reload_result, auVars>>

\* lines 144-151
Promote ==
    /\ d_pc = "promote"
    /\ UNCHANGED nonDeployVars
    /\ IF PromoteWanted
       THEN /\ ci_state' = [ci_state EXCEPT ![instance_id] = "deployed"]
            /\ promoted' = "yes"
       ELSE /\ UNCHANGED ci_state
            /\ promoted' = "no"
    /\ IF ClearsAuthorizedUntil(Cert)
       THEN LET r == update_authorized_until(Cert, None, mem_au, db_au)
            IN  mem_au' = r.mem /\ db_au' = r.db
       ELSE UNCHANGED auVars
    /\ d_cert' = d_cert + 1
    /\ d_pc' = "for_cert"
    /\ UNCHANGED <<only_host, skip_host, no_TLSA, tlsa_dns_master,
                   d_arg, selected, reload_outcomes,
                   instance_id, error_found,
                   host_omitted, disthosts, d_host, d_jail, dh_places,
                   d_place, place, d_call, state_before, visited, uploads,
                   served, tlsa_done, reloads,
                   reload_result, dnsVars>>

\* line 153
DeployUpdateSOA ==
    /\ d_pc = "soa"
    /\ UNCHANGED nonDeployVars
    /\ updateSOAofUpdatedZones
    /\ d_pc' = "reload"
    /\ UNCHANGED <<only_host, skip_host, no_TLSA, tlsa_dns_master,
                   d_arg, selected, reload_outcomes,
                   instance_id, error_found,
                   host_omitted, d_cert, disthosts, d_host, d_jail,
                   dh_places, d_place, place, d_call, ci_state,
                   state_before, visited, uploads, served, tlsa_done,
                   promoted, reloads,
                   reload_result, auVars>>

\* lines 154-155
DeployReload ==
    /\ d_pc = "reload"
    /\ UNCHANGED nonDeployVars
    /\ reloadNameServer
    /\ d_pc' = "return"
    /\ UNCHANGED <<only_host, skip_host, no_TLSA, tlsa_dns_master,
                   d_arg, selected, reload_outcomes,
                   instance_id, error_found,
                   host_omitted, d_cert, disthosts, d_host, d_jail,
                   dh_places, d_place, place, d_call, ci_state,
                   state_before, visited, uploads, served, tlsa_done,
                   promoted, reloads,
                   reload_result, auVars>>

NextDeploy ==
    \/ CertsDone
    \/ CertSkip
    \/ CertSelect
    \/ HostOmit
    \/ HostEnter
    \/ HostsDone
    \/ MissingPlace
    \/ JailEnter
    \/ JailsDone
    \/ PlaceEnter
    \/ PlacesDone
    \/ Distribute
    \/ Tlsa
    \/ Promote
    \/ DeployUpdateSOA
    \/ DeployReload

SpecDeploy == InitDeploy /\ [][NextDeploy]_vars

\* deployCerts for all certs with their most recent instances, no only_host,
\* a local DNS master, and reload commands that end in every way they can
InitReload ==
    /\ IdleAuth
    /\ IdleDM
    /\ IdleActive
    /\ IdleDist
    /\ IdleSaveLoad
    /\ IdleSnap
    /\ IdleLE
    /\ IdleCA
    /\ IdlePath
    /\ InitStore
    /\ d_pc = "for_cert"
    /\ only_host = {}
    /\ skip_host \in SUBSET Hosts
    /\ no_TLSA \in BOOLEAN
    /\ tlsa_dns_master = ""
    /\ instance_id = None
    /\ d_arg = instance_id
    /\ selected = "unset"
    /\ reload_outcomes = ReloadOutcomes
    /\ DeployLocals
    /\ mem_au = [c \in CMs |-> 1]
    /\ db_au = [c \in CMs |-> 1]
    /\ zone_dirs = {<<"ex", "org">>}

SpecReload == InitReload /\ [][NextDeploy]_vars

\* deployCerts has ended: by return, return False, an error, or exit(1)
DeployEnded == d_pc \in {"return", "return_false", "raise", "exit"}

\* ------------------------------------------------------------------------
\* Properties of deployCerts
\* ------------------------------------------------------------------------
\* a disthost of the current cert is left out by skip_host or only_host
SomeHostOmitted ==
    \E i \in 1..Len(disthosts) :
        \/ disthosts[i] \in skip_host
        \/ (only_host # {} /\ disthosts[i] \notin only_host)

\* C1: once lines 144-151 have run for a cert with disthosts (its deployment
\* completed without error), the selected instance is 'deployed' if no
\* disthost of the cert was left out, and has the state it was selected
\* with if any disthost was left out, wherever it stands in disthosts.
C1_PromotedIffNoHostOmitted ==
    promoted # NoneStr =>
        IF SomeHostOmitted
        THEN ci_state[instance_id] = state_before
        ELSE ci_state[instance_id] = "deployed"

\* C1 witness: the first disthost was left out, the second one was served,
\* and the instance kept its state
C1_Witness ==
    /\ promoted = "no"
    /\ Len(disthosts) = 2
    /\ disthosts[1] \in skip_host
    /\ disthosts[2] \in DOMAIN visited
    /\ state_before = "issued"
    /\ ci_state[instance_id] = "issued"

\* C2: 'deployed' is recorded for the cert's instance only when every
\* disthost of the cert was entered, had places, and every distribute_cert
\* call of every place in every jail uploaded its file; a run that ended in
\* an error or with return False has not promoted the cert it stopped in.
C2_DeployedOnlyIfAllUploaded ==
    /\ promoted = "yes" =>
          \A i \in 1..Len(disthosts) :
              LET h == disthosts[i]
              IN  /\ h \in DOMAIN visited
                  /\ visited[h] > 0
                  /\ \A j \in Range(JailsOf(h)) : \A p \in 1..visited[h] :
                         <<h, j, p>> \in served
    /\ d_pc \in {"raise", "return_false"} => promoted = NoneStr

\* C2 witness: two disthosts, three places in all, each fully uploaded,
\* and the instance promoted
C2_Witness ==
    /\ promoted = "yes"
    /\ Len(disthosts) = 2
    /\ Cardinality(served) >= 3
    /\ ci_state[instance_id] = "deployed"

\* C5 as stated: whenever 'deployed' has been recorded for the cert's
\* instance, distribute_tlsa_rrs was called before for that cert with the
\* instance's hash.
C5_DeployedOnlyAfterTlsa ==
    promoted = "yes" => tlsa_done = instance_id

\* C5 amended: unless opts.no_TLSA is set, 'deployed' is recorded only after
\* distribute_tlsa_rrs was called for the cert with the instance's hash;
\* with opts.no_TLSA set it is recorded without any TLSA publish.
C5_DeployedAfterTlsaUnlessNoTLSA ==
    /\ (promoted = "yes" /\ ~no_TLSA) => tlsa_done = instance_id
    /\ no_TLSA => tlsa_done = None

\* C5 witness: the TLSA file was written, then the instance was promoted
C5_Witness ==
    /\ promoted = "yes"
    /\ ~no_TLSA
    /\ tlsa_done = instance_id
    /\ <<"ex", "org">> \in unpublished
    /\ ci_state[instance_id] = "deployed"

\* C6: when deployCerts has ended, however it ended, no zone holds a TLSA
\* file written by the run that was not followed by an SOA bump and a
\* name-server reload.
C6_ZoneWritesPublishedAtEnd ==
    DeployEnded => unpublished = {}

\* ========================================================================
\* _authorize (issue_LE.py lines 209-336)
\* ========================================================================
\* FQDNs = [cert_meta.name] + cert_meta.altnames   (lines 214-216)
FQDNs == AltNames(cert_meta)

\* auth['txt_record'] of an fqdn (lines 233-236): the digest of the key
\* authorization of the challenge the server issued for this fqdn
TxtRecord(fqdn) == <<"b64-sha256-of-token-of">> \o fqdn

\* the expires text of a get_authorization response, and iso8601.parse_date
\* of it; '(not provided)' (line 288) does not parse
IsoText(t) == <<"iso8601", t>>

NotProvided == <<"(not provided)", 0>>

ParseFails(text) == text[1] # "iso8601"

parse_date(text) == text[2]

\* lines 240-247: zones[zone] lists the fqdns of the zone, in order
ZonesDict(pairs) ==
    [z \in {pairs[i][1] : i \in 1..Len(pairs)} |->
        LET of_z == SelectSeq(pairs, LAMBDA zf : zf[1] = z)
        IN  [i \in 1..Len(of_z) |-> of_z[i][2]]]

\* (the list of lines started anew for every fqdn)
IncludeLines_lastOnly(zd, az, zone) ==
    << [rr |-> <<"_acme-challenge">> \o zd[zone][Len(zd[zone])],
        txt |-> az[zd[zone][Len(zd[zone])]]] >>

\* lines 252-256: the lines written to the include file of a zone
IncludeLines(zd, az, zone) ==
    [i \in 1..Len(zd[zone]) |->
        [rr |-> <<"_acme-challenge">> \o zd[zone][i],
         txt |-> az[zd[zone][i]]]]

\* line 289: the expiry is taken from a valid response only while
\* authorized_until is still unset
KeepsExpiry(until, expires) == until # None

Ev(e, arg) == [e |-> e, arg |-> arg]

InitAuth ==
    /\ IdleDeploy
    /\ IdleDM
    /\ IdleActive
    /\ IdleDist
    /\ IdleSaveLoad
    /\ IdleSnap
    /\ IdleLE
    /\ IdleCA
    /\ IdlePath
    /\ InitStore
    /\ IdleIssue
    /\ a_pc = "new_authorization"
    /\ cert_meta \in {c \in CMs : CertMeta[c].cert_type = "LE"}
    /\ zone_dirs \in SUBSET {<<"ex", "org">>, <<"b", "ex", "org">>,
                            <<"net">>}
    /\ \E au \in {None, 1} :
          /\ mem_au = [c \in CMs |-> au]
          /\ db_au = [c \in CMs |-> au]
    /\ a_fqdn = 1
    /\ authz = <<>>
    /\ zones = <<>>
    /\ include = <<>>
    /\ done = {}
    /\ failed = {}
    /\ authorized_until = None
    /\ polls = 0
    /\ reported = {}
    /\ a_log = <<>>

\* (an fqdn without a dns-01 challenge is passed as if it had one)
AfterNewAuthorization_goOn(answer) ==
    IF answer = "IOError" THEN "raise" ELSE "continue"

\* lines 223-232: the dns-01 challenge is picked; without one the IndexError
\* becomes a ManualeError, and an IOError of the request leaves the loop too
AfterNewAuthorization(answer) ==
    IF answer = "dns-01" THEN "continue" ELSE "raise"

\* lines 221-238: one iteration of the authorization request loop
NewAuthorization ==
    /\ a_pc = "new_authorization"
    /\ UNCHANGED nonAuthVars
    /\ a_fqdn <= Len(FQDNs)
    /\ \E answer \in {"dns-01", "no dns-01", "IOError"} :
          IF AfterNewAuthorization(answer) = "continue"
          THEN /\ authz' = (FQDNs[a_fqdn] :> TxtRecord(FQDNs[a_fqdn]))
                              @@ authz
               /\ a_fqdn' = a_fqdn + 1
               /\ a_log' = Append(a_log,
                                  Ev(IF answer = "dns-01"
                                     THEN "new_authorization" ELSE answer,
                                     FQDNs[a_fqdn]))
               /\ UNCHANGED a_pc
          ELSE /\ a_pc' = "raise"
               /\ a_log' = Append(a_log, Ev("raise", <<answer>>))
               /\ UNCHANGED <<authz, a_fqdn>>
    /\ UNCHANGED <<reported, issueVars, cert_meta, zones, include, done,
                   failed, authorized_until, polls, auVars, dnsVars>>

\* lines 240-262: the zones are grouped and every include file is written
WriteChallenges ==
    /\ a_pc = "new_authorization"
    /\ UNCHANGED nonAuthVars
    /\ a_fqdn > Len(FQDNs)
    /\ LET zd == ZonesDict(zone_and_FQDN_from_altnames(cert_meta))
       IN  /\ zones' = zd
           /\ include' = [z \in DOMAIN zd |-> IncludeLines(zd, authz, z)]
           /\ WriteZones(DOMAIN zd)
    /\ a_log' = Append(a_log, Ev("write includes", <<>>))
    /\ a_pc' = "soa 1"
    /\ UNCHANGED <<reported, issueVars, cert_meta, a_fqdn, authz, done, failed, authorized_until,
                   polls, auVars>>

\* line 264
AuthUpdateSOA1 ==
    /\ a_pc = "soa 1"
    /\ UNCHANGED nonAuthVars
    /\ updateSOAofUpdatedZones
    /\ a_log' = Append(a_log, Ev("SOA", <<>>))
    /\ a_pc' = "reload 1"
    /\ UNCHANGED <<reported, issueVars, cert_meta, a_fqdn, authz, zones, include, done, failed,
                   authorized_until, polls, auVars>>

\* lines 265-272
AuthReload1 ==
    /\ a_pc = "reload 1"
    /\ UNCHANGED nonAuthVars
    /\ reloadNameServer
    /\ a_log' = Append(a_log, Ev("reload", <<>>))
    /\ a_pc' = "validate"
    /\ a_fqdn' = 1
    /\ done' = {}
    /\ failed' = {}
    /\ authorized_until' = None
    /\ UNCHANGED <<reported, issueVars, cert_meta, authz, zones, include, polls, auVars>>

\* lines 274-278: validate_authorization for the next fqdn
Validate ==
    /\ a_pc = "validate"
    /\ UNCHANGED nonAuthVars
    /\ a_fqdn <= Len(FQDNs)
    /\ \E answer \in {"ok", "IOError"} :
          IF answer = "ok"
          THEN /\ a_pc' = "poll"
               /\ polls' = 0
               /\ a_log' = Append(a_log, Ev("validate", FQDNs[a_fqdn]))
          ELSE /\ a_pc' = "raise"
               /\ a_log' = Append(a_log, Ev("raise", <<answer>>))
               /\ UNCHANGED polls
    /\ UNCHANGED <<reported, issueVars, cert_meta, a_fqdn, authz, zones, include, done, failed,
                   authorized_until, auVars, dnsVars>>

\* lines 280-307: one get_authorization call for the current fqdn
Poll ==
    /\ a_pc = "poll"
    /\ UNCHANGED nonAuthVars
    /\ LET fqdn == FQDNs[a_fqdn]
       IN
       \E status \in {"pending", "valid", "invalid", "IOError"},
          expires \in {IsoText(t) : t \in 1..MaxExpires} \cup {NotProvided} :
          /\ status = "pending" => polls < MaxPoll
          /\ status # "valid" => expires = NotProvided
          /\ polls' = polls + 1
          /\ reported' = IF status = "valid" /\ ~ParseFails(expires)
                          THEN reported \cup {parse_date(expires)}
                          ELSE reported
          /\ CASE status = "IOError" ->
                    /\ a_pc' = "raise"
                    /\ a_log' = Append(a_log, Ev("raise", <<status>>))
                    /\ UNCHANGED <<a_fqdn, done, failed, authorized_until>>
               [] status = "pending" ->
                    /\ a_log' = Append(a_log, Ev("pending", fqdn))
                    /\ UNCHANGED <<a_pc, a_fqdn, done, failed,
                                   authorized_until>>
               [] status = "valid" ->
                    /\ done' = done \cup {fqdn}
                    /\ UNCHANGED failed
                    /\ IF KeepsExpiry(authorized_until, expires)
                       THEN /\ UNCHANGED authorized_until
                            /\ a_pc' = "validate"
                            /\ a_fqdn' = a_fqdn + 1
                            /\ a_log' = Append(a_log, Ev("valid", fqdn))
                       ELSE IF ParseFails(expires)
                       THEN /\ UNCHANGED <<authorized_until, a_fqdn>>
                            /\ a_pc' = "raise"
                            /\ a_log' = Append(a_log,
                                               Ev("raise", <<"ParseError">>))
                       ELSE /\ authorized_until' = parse_date(expires)
                            /\ a_pc' = "validate"
                            /\ a_fqdn' = a_fqdn + 1
                            /\ a_log' = Append(a_log, Ev("valid", fqdn))
               [] OTHER ->
                    /\ failed' = failed \cup {fqdn}
                    /\ a_pc' = "validate"
                    /\ a_fqdn' = a_fqdn + 1
                    /\ a_log' = Append(a_log, Ev("failed", fqdn))
                    /\ UNCHANGED <<done, authorized_until>>
    /\ UNCHANGED <<issueVars, cert_meta, authz, zones, include, auVars, dnsVars>>

\* lines 309-312: cert_meta.update_authorized_until(authorized_until)
Persist ==
    /\ a_pc = "validate"
    /\ UNCHANGED nonAuthVars
    /\ a_fqdn > Len(FQDNs)
    /\ LET r == update_authorized_until(cert_meta, authorized_until,
                                        mem_au, db_au)
       IN  /\ mem_au' = r.mem
           /\ db_au' = r.db
           /\ IF r.raised
              THEN /\ a_pc' = "raise"
                   /\ a_log' = Append(a_log, Ev("raise", <<"AssertionError">>))
              ELSE /\ a_pc' = "truncate"
                   /\ a_log' = Append(a_log, Ev("authorized_until", <<>>))
    /\ UNCHANGED <<reported, issueVars, cert_meta, a_fqdn, authz, zones, include, done, failed,
                   authorized_until, polls, dnsVars>>

\* lines 314-321: every include file is made empty
Truncate ==
    /\ a_pc = "truncate"
    /\ UNCHANGED nonAuthVars
    /\ include' = [z \in DOMAIN zones |-> <<>>]
    /\ WriteZones(DOMAIN zones)
    /\ a_log' = Append(a_log, Ev("truncate includes", <<>>))
    /\ a_pc' = "soa 2"
    /\ UNCHANGED <<reported, issueVars, cert_meta, a_fqdn, authz, zones, done, failed,
                   authorized_until, polls, auVars>>

\* line 322
AuthUpdateSOA2 ==
    /\ a_pc = "soa 2"
    /\ UNCHANGED nonAuthVars
    /\ updateSOAofUpdatedZones
    /\ a_log' = Append(a_log, Ev("SOA", <<>>))
    /\ a_pc' = "reload 2"
    /\ UNCHANGED <<reported, issueVars, cert_meta, a_fqdn, authz, zones, include, done, failed,
                   authorized_until, polls, auVars>>

\* lines 323-332
AuthReload2 ==
    /\ a_pc = "reload 2"
    /\ UNCHANGED nonAuthVars
    /\ reloadNameServer
    /\ a_log' = Append(a_log, Ev("reload", <<>>))
    /\ a_pc' = IF failed # {} THEN "return False" ELSE "return True"
    /\ UNCHANGED <<reported, issueVars, cert_meta, a_fqdn, authz, zones, include, done, failed,
                   authorized_until, polls, auVars>>

NextAuth ==
    \/ NewAuthorization
    \/ WriteChallenges
    \/ AuthUpdateSOA1
    \/ AuthReload1
    \/ Validate
    \/ Poll
    \/ Persist
    \/ Truncate
    \/ AuthUpdateSOA2
    \/ AuthReload2

SpecAuth == InitAuth /\ [][NextAuth]_vars

\* _authorize has ended: by a return or by an error
AuthEnded == a_pc \in {"return True", "return False", "raise"}

\* ------------------------------------------------------------------------
\* Properties of _authorize
\* ------------------------------------------------------------------------
\* the events of a_log with tag e
Events(e) == {i \in 1..Len(a_log) : a_log[i].e = e}

\* C3: whenever _authorize has ended after the challenge includes were
\* written and the first SOA bump and reload were done, every include file
\* written is empty again and a second SOA bump and reload were done after
\* the truncation, so that no zone is left with an unpublished write.
C3_TeardownBeforeEnd ==
    (AuthEnded /\ Events("reload") # {}) =>
        /\ \A z \in DOMAIN include : include[z] = <<>>
        /\ Cardinality(Events("truncate includes")) = 1
        /\ Cardinality(Events("SOA")) = 2
        /\ Cardinality(Events("reload")) = 2
        /\ unpublished = {}

\* C4: once update_authorized_until has stored the value, the store holds
\* the smallest expiry the server reported for an fqdn that became valid.
C4_PersistsMinimumExpiry ==
    (a_pc \in {"truncate", "soa 2", "reload 2", "return True",
               "return False"} /\ reported # {}) =>
        /\ db_au[cert_meta] \in reported
        /\ \A t \in reported : db_au[cert_meta] <= t

\* the challenge lines the include file of zone z has to hold: one for each
\* fqdn of FQDNs that belongs to z
ChallengeLines(z) ==
    {[rr |-> <<"_acme-challenge">> \o FQDNs[i], txt |-> TxtRecord(FQDNs[i])] :
        i \in {k \in 1..Len(FQDNs) : ZoneOf(FQDNs[k]) = z}}

\* the validation part of a_log: for each fqdn in order, validate, then
\* polls answered 'pending', then the poll answered 'valid'
ValidationInOrder(from, to) ==
    LET part == SubSeq(a_log, from, to)
        steps == SelectSeq(part, LAMBDA ev : ev.e # "pending")
    IN  /\ Len(steps) = 2 * Len(FQDNs)
        /\ \A k \in 1..Len(FQDNs) :
              /\ steps[2 * k - 1] = Ev("validate", FQDNs[k])
              /\ steps[2 * k] = Ev("valid", FQDNs[k])
        /\ \A i \in 1..Len(part) :
              part[i].e = "pending" =>
                  /\ i > 1
                  /\ part[i - 1] \in {Ev("validate", part[i].arg),
                                      Ev("pending", part[i].arg)}

\* C7: (a) when the first SOA bump is due, every zone's include file holds
\* exactly one TXT line per fqdn of the zone; (b) a run that returned True
\* did, in this order: the authorization requests, the include writes, SOA
\* bump, reload, per fqdn validate and polling up to 'valid', the
\* authorized_until write, the truncation, SOA bump, reload; two reloads in
\* all.
C7_SuccessfulRunOrder ==
    /\ a_pc = "soa 1" =>
          \A z \in DOMAIN include :
              /\ Range(include[z]) = ChallengeLines(z)
              /\ Len(include[z]) = Cardinality(ChallengeLines(z))
    /\ a_pc = "return True" =>
          LET n == Len(FQDNs)
              m == Len(a_log)
          IN  /\ m >= 3 * n + 7
              /\ \A k \in 1..n : a_log[k] = Ev("new_authorization", FQDNs[k])
              /\ a_log[n + 1].e = "write includes"
              /\ a_log[n + 2].e = "SOA"
              /\ a_log[n + 3].e = "reload"
              /\ ValidationInOrder(n + 4, m - 4)
              /\ a_log[m - 3].e = "authorized_until"
              /\ a_log[m - 2].e = "truncate includes"
              /\ a_log[m - 1].e = "SOA"
              /\ a_log[m].e = "reload"
              /\ Cardinality(Events("reload")) = 2
              /\ \A z \in DOMAIN include : include[z] = <<>>

\* C7 witness: a successful run over three fqdns in two zones, one of them
\* with two fqdns, with a poll answered 'pending'
C7_Witness ==
    /\ a_pc = "return True"
    /\ Len(FQDNs) = 3
    /\ Cardinality(DOMAIN zones) = 2
    /\ \E z \in DOMAIN zones : Len(zones[z]) = 2
    /\ Events("pending") # {}

\* ------------------------------------------------------------------------
\* serverPKI/cert.py: Certificate, CertInstance, CertKeyStore
\* ------------------------------------------------------------------------
\* lines 937-949: hash_from_cert
hash_from_cert(cert) ==
    LET c == IF cert.form = "pem" THEN load_pem_x509_certificate(cert)
             ELSE cert
    IN  Fingerprint[c.body]

\* the object memory an operation works on, and whether it has raised
Mem == [all_CMs |-> all_CMs, n_objs |-> n_objs,
        cert_instances |-> cert_instances, ca_cert_ci |-> ca_cert_ci,
        cksd |-> cksd, cert_key_stores |-> cert_key_stores,
        cks_objs |-> cks_objs, raised |-> FALSE, dup |-> NoneStr,
        dup_before |-> cert_key_stores]

\* (self.name assigned before the check of line 303)
SelfAtDuplicate_named(name) == [has_name |-> TRUE, name |-> name]

\* lines 303-307: the Certificate object as it is when line 304 raises;
\* self.name is assigned at line 307 only
SelfAtDuplicate(name) == [has_name |-> FALSE, name |-> name]

\* lines 286-291: Certificate.__del__; reading a missing self.name raises
\* AttributeError, which Python ignores in __del__
Certificate__del__(reg, self) ==
    IF \A n \in Names : reg[n] = None THEN reg
    ELSE IF ~self.has_name THEN reg
    ELSE [reg EXCEPT ![self.name] = None]

\* (no check for a registered hash)
IsDuplicate_never(hash, reg) == FALSE

\* line 1006: hash in CertKeyStore._cert_key_stores
IsDuplicate(hash, reg) == reg[hash] # None

\* lines 1032-1036: CertKeyStore.__del__ of an object whose __init__ raised
\* at line 1007, before self.hash was assigned: AttributeError, ignored
CertKeyStore__del__(reg, self) ==
    IF ~self.has_hash THEN reg
    ELSE [reg EXCEPT ![self.hash] = None]

\* lines 982-1030: CertKeyStore.__init__; row_id is the DB row for a CKS
\* loaded, and the row _save inserts for a new one
CertKeyStore__init__(m, row_id, ci, algo, cert, loaded) ==
    LET hash == hash_from_cert(cert)
        seen == [m EXCEPT !.dup = IF m.cert_key_stores[hash] # None
                                  THEN hash ELSE m.dup,
                          !.dup_before = m.cert_key_stores]
    IN  IF IsDuplicate(hash, m.cert_key_stores)
        THEN [seen EXCEPT !.raised = TRUE,
                          !.cert_key_stores =
                              CertKeyStore__del__(@, [has_hash |-> FALSE,
                                                     hash |-> hash])]
        ELSE LET self == [ci |-> ci, row_id |-> row_id, hash |-> hash,
                          algo |-> algo,
                          cert |-> IF loaded THEN cert
                                   ELSE public_bytes(cert)]
             IN  [seen EXCEPT !.cks_objs = Append(@, self),
                              !.cert_key_stores[hash] = Len(m.cks_objs) + 1]

\* q_instances: the rows of a cert, ORDER BY id DESC
RECURSIVE RowsOf(_, _)
RowsOf(name, n) ==
    IF n = 0 THEN <<>>
    ELSE (IF db_ci[n].cm = name THEN <<n>> ELSE <<>>) \o RowsOf(name, n - 1)

\* q_load_instance: the CertKeyData rows joined to a CertInstances row
CkdRowsOf(row_id) ==
    SelectSeq([i \in 1..Len(db_ckd) |-> i],
              LAMBDA i : db_ckd[i].ci = row_id)

RECURSIVE Certificate__init__(_, _)
RECURSIVE LoadInstances(_, _, _)
RECURSIVE LoadCertKeyStores(_, _, _)

\* lines 183-186: CM(db, name)
CM(m, name) ==
    IF m.all_CMs[name] # None THEN m ELSE Certificate__init__(m, name)

\* lines 750-758: a CKS for every CertKeyData row of the instance
LoadCertKeyStores(m, row_id, ckds) ==
    IF ckds = <<>> THEN m
    ELSE LET algo == db_ckd[Head(ckds)].encryption_algo
             m1 == CertKeyStore__init__(m, Head(ckds), row_id, algo,
                                        db_ckd[Head(ckds)].cert, TRUE)
         IN  IF m1.raised THEN m1
             ELSE LoadCertKeyStores(
                      [m1 EXCEPT !.cksd[row_id][algo] = Len(m1.cks_objs)],
                      row_id, Tail(ckds))

\* lines 722-758: CertInstance.__init__ with a row_id
CertInstance__init__(m, name, row_id) ==
    LET row == db_ci[row_id]
        ca_cert_fqdn == db_ci[row.ca_cert_ci_id].cm
        m1 == IF Subjects[name] = "CA"
              THEN [m EXCEPT !.ca_cert_ci[row_id] = row_id]
              ELSE LET m2 == CM(m, ca_cert_fqdn)
                   IN  IF m2.raised THEN m2
                       ELSE IF row.ca_cert_ci_id
                                   \in Range(m2.cert_instances[ca_cert_fqdn])
                       THEN [m2 EXCEPT
                                !.ca_cert_ci[row_id] = row.ca_cert_ci_id]
                       ELSE [m2 EXCEPT !.raised = TRUE]
    IN  IF m1.raised THEN m1
        ELSE LoadCertKeyStores(m1, row_id, CkdRowsOf(row_id))

\* lines 396-399: the instances of the cert are loaded and appended
LoadInstances(m, name, rows) ==
    IF rows = <<>> THEN m
    ELSE LET m1 == CertInstance__init__(m, name, Head(rows))
         IN  IF m1.raised THEN m1
             ELSE LoadInstances(
                      [m1 EXCEPT !.cert_instances[name] = Append(@, Head(rows))],
                      name, Tail(rows))

\* lines 293-399: Certificate.__init__
Certificate__init__(m, name) ==
    IF m.all_CMs[name] # None
    THEN [m EXCEPT !.raised = TRUE,
                   !.n_objs = @ + 1,
                   !.all_CMs = Certificate__del__(@, SelfAtDuplicate(name))]
    ELSE LoadInstances([m EXCEPT !.n_objs = @ + 1,
                                 !.all_CMs[name] = m.n_objs + 1],
                       name, RowsOf(name, Len(db_ci)))

\* the memory an operation leaves behind
Commit(m) ==
    /\ all_CMs' = m.all_CMs
    /\ n_objs' = m.n_objs
    /\ cert_instances' = m.cert_instances
    /\ ca_cert_ci' = m.ca_cert_ci
    /\ cksd' = m.cksd
    /\ cert_key_stores' = m.cert_key_stores
    /\ cks_objs' = m.cks_objs

\* what is kept of an operation: its result, the registry of Certificates
\* a construction met, and the hash and registry a CertKeyStore creation
\* for a registered hash met
Outcome(op, arg, m) ==
    [op |-> op, arg |-> arg,
     result |-> IF m.raised THEN "AssertionError" ELSE "ok",
     all_CMs |-> IF op = "Certificate" THEN all_CMs ELSE NoOperation.all_CMs,
     dup |-> m.dup,
     cert_key_stores |-> IF m.dup # NoneStr THEN m.dup_before
                         ELSE NoOperation.cert_key_stores]

\* the CIs in memory
LoadedCIs == UNION {Range(cert_instances[n]) : n \in Names}

InitDM ==
    /\ IdleDeploy
    /\ IdleAuth
    /\ IdleActive
    /\ IdleDist
    /\ IdleSaveLoad
    /\ IdleSnap
    /\ IdleLE
    /\ IdleCA
    /\ IdlePath
    /\ InitStore
    /\ mem_au = [c \in CMs |-> None]
    /\ db_au = [c \in CMs |-> None]
    /\ zone_dirs = {}
    /\ IdleDM

\* a call of CM(db, name)
LookupCM ==
    /\ UNCHANGED nonDMVars
    /\ \E name \in Names :
          LET m == CM(Mem, name)
          IN  /\ m.n_objs <= MaxObjects
              /\ Commit(m)
              /\ returned' = IF m.raised THEN returned
                             ELSE [returned EXCEPT
                                      ![name] = @ \cup {m.all_CMs[name]}]
              /\ last_call' = Outcome("CM", name, m)
    /\ UNCHANGED <<db_ci, db_ckd, new_cis>>

\* a call of Certificate(db, name)
NewCertificate ==
    /\ UNCHANGED nonDMVars
    /\ \E name \in Names :
          LET m == Certificate__init__(Mem, name)
          IN  /\ m.n_objs <= MaxObjects
              /\ Commit(m)
              /\ returned' = IF m.raised THEN returned
                             ELSE [returned EXCEPT
                                      ![name] = @ \cup {m.all_CMs[name]}]
              /\ last_call' = Outcome("Certificate", name, m)
    /\ UNCHANGED <<db_ci, db_ckd, new_cis>>

\* what a caller passes as ca_cert_ci: nothing, or the first CI of a cert
\* meta in memory
Issuers ==
    {None} \cup {cert_instances[n][1] :
                    n \in {x \in Names : cert_instances[x] # <<>>}}

\* (the CI is taken to have its row already)
NeedsSave_never(row_id) == FALSE

\* line 863: if not self.row_id
NeedsSave(row_id) == row_id = None

\* lines 796-839: CertInstance._save of a CI without row_id. A CI that is
\* its own ca_cert_ci takes the branch of line 825, where
\* ps_store_cacert_instance is read as a local before it is assigned
\* (it is missing in the global statement of line 801): UnboundLocalError
CertInstance_save(ca) ==
    IF ca = None THEN "UnboundLocalError" ELSE "ok"

\* lines 403-429: cm.create_instance(..., ca_cert_ci) on a registered cm;
\* the new CI is saved at once (line 422) and appended
create_instance ==
    /\ UNCHANGED nonDMVars
    /\ Len(db_ci) < MaxRows
    /\ \E name \in {n \in Names : all_CMs[n] # None},
          ca \in Issuers :
          LET row_id == Len(db_ci) + 1
          IN  IF ca = None /\ Subjects[name] # "CA"
              THEN /\ last_call' = Outcome("create_instance", name,
                                      [Mem EXCEPT !.raised = TRUE])
                   /\ UNCHANGED <<cert_instances, ca_cert_ci, db_ci>>
              ELSE IF CertInstance_save(ca) # "ok"
              THEN /\ last_call' =
                          [Outcome("create_instance", name,
                                   [Mem EXCEPT !.raised = TRUE])
                              EXCEPT !.result = CertInstance_save(ca)]
                   /\ UNCHANGED <<cert_instances, ca_cert_ci, db_ci>>
              ELSE /\ db_ci' = Append(db_ci, [cm |-> name,
                                              ca_cert_ci_id |-> ca])
                   /\ ca_cert_ci' = [ca_cert_ci EXCEPT ![row_id] = ca]
                   /\ cert_instances' =
                          [cert_instances EXCEPT ![name] = Append(@, row_id)]
                   /\ last_call' = Outcome("create_instance", name, Mem)
    /\ UNCHANGED <<all_CMs, n_objs, cksd, cert_key_stores, cks_objs, db_ckd,
                   returned, new_cis>>

\* lines 689-763: CertInstance(cert_meta=cm, ca_cert_ci=ca) without row_id,
\* called directly; the object is in no cm.cert_instances
NewCertInstance ==
    /\ UNCHANGED nonDMVars
    /\ Len(new_cis) < MaxNewCIs
    /\ \E name \in {n \in Names : all_CMs[n] # None},
          ca \in Issuers :
          IF ca = None /\ Subjects[name] # "CA"
          THEN /\ last_call' = Outcome("CertInstance", name,
                                       [Mem EXCEPT !.raised = TRUE])
               /\ UNCHANGED new_cis
          ELSE /\ new_cis' = Append(new_cis, [cm |-> name, row_id |-> None,
                                              ca_cert_ci |-> ca])
               /\ last_call' = Outcome("CertInstance", name, Mem)
    /\ UNCHANGED <<all_CMs, n_objs, cert_instances, ca_cert_ci, cksd,
                   cert_key_stores, cks_objs, db_ci, db_ckd, returned>>

\* the CIs store_cert_key can be called on: those in a cm.cert_instances
\* and those constructed directly
HeldCIs ==
    {[listed |-> TRUE, id |-> r] : r \in LoadedCIs}
        \cup {[listed |-> FALSE, id |-> i] : i \in 1..Len(new_cis)}

\* lines 843-873: ci.store_cert_key(algo, cert, key); the AssertionError
\* of lines 855-857 is built and never raised; a CI without row_id is
\* saved first (lines 863-864), then the CertKeyStore is constructed and
\* saves itself (lines 866-871, 1028, 1095-1106)
store_cert_key ==
    /\ UNCHANGED nonDMVars
    /\ Len(cks_objs) < MaxCKS
    /\ \E self \in HeldCIs, body \in X509Certs,
          algo \in {NoneStr, "ec"} :
          LET cert == [form |-> "x509", body |-> body]
              the_algo == IF algo # NoneStr THEN algo ELSE "rsa"
              old_id == IF self.listed THEN self.id
                        ELSE new_cis[self.id].row_id
              saves == NeedsSave(old_id)
              ca == IF self.listed THEN ca_cert_ci[self.id]
                    ELSE new_cis[self.id].ca_cert_ci
              ci == IF saves THEN Len(db_ci) + 1 ELSE old_id
              row_id == Len(db_ckd) + 1
              m == CertKeyStore__init__(Mem, row_id, ci, the_algo, cert,
                                        FALSE)
          IN  IF saves /\ CertInstance_save(ca) # "ok"
              THEN /\ last_call' =
                          [Outcome("store_cert_key", NoneStr,
                                   [Mem EXCEPT !.raised = TRUE])
                              EXCEPT !.result = CertInstance_save(ca)]
                   /\ UNCHANGED <<cert_key_stores, cks_objs, cksd, db_ckd,
                                  db_ci, new_cis, ca_cert_ci>>
              ELSE /\ saves => Len(db_ci) < MaxRows
                   /\ IF saves
                      THEN /\ db_ci' = Append(db_ci,
                                          [cm |-> new_cis[self.id].cm,
                                           ca_cert_ci_id |-> ca])
                           /\ new_cis' = [new_cis EXCEPT
                                             ![self.id].row_id = ci]
                           /\ ca_cert_ci' = [ca_cert_ci EXCEPT ![ci] = ca]
                      ELSE UNCHANGED <<db_ci, new_cis, ca_cert_ci>>
                   /\ cert_key_stores' = m.cert_key_stores
                   /\ cks_objs' = m.cks_objs
                   /\ last_call' = Outcome("store_cert_key", NoneStr, m)
                   /\ IF m.raised
                      THEN UNCHANGED <<cksd, db_ckd>>
                      ELSE /\ db_ckd' = Append(db_ckd,
                                          [ci |-> ci,
                                           encryption_algo |-> the_algo,
                                           cert |-> public_bytes(cert)])
                           /\ cksd' = IF ci = None THEN cksd
                                      ELSE [cksd EXCEPT ![ci][the_algo] =
                                                            Len(m.cks_objs)]
    /\ UNCHANGED <<all_CMs, n_objs, cert_instances, returned>>

NextDM ==
    \/ LookupCM
    \/ NewCertificate
    \/ create_instance
    \/ store_cert_key

SpecDM == InitDM /\ [][NextDM]_vars

\* the memory of a fresh process
EmptyMem == [all_CMs |-> [n \in Names |-> None], n_objs |-> 0,
             cert_instances |-> [n \in Names |-> <<>>],
             ca_cert_ci |-> [r \in 1..MaxRows |-> None],
             cksd |-> [r \in 1..MaxRows |-> NoCKS],
             cert_key_stores |-> [h \in Hashes |-> None],
             cks_objs |-> <<>>, raised |-> FALSE, dup |-> NoneStr,
             dup_before |-> [h \in Hashes |-> None]]

\* the process has called CM(db, 'srv'), which loaded srv, the CA cert it
\* was issued by, and their instances
InitCI ==
    /\ IdleDeploy
    /\ IdleAuth
    /\ IdleActive
    /\ IdleDist
    /\ IdleSaveLoad
    /\ IdleSnap
    /\ IdleLE
    /\ IdleCA
    /\ IdlePath
    /\ InitStore
    /\ mem_au = [c \in CMs |-> None]
    /\ db_au = [c \in CMs |-> None]
    /\ zone_dirs = {}
    /\ db_ci = InitCertInstances
    /\ db_ckd = InitCertKeyData
    /\ LET m == CM(EmptyMem, "srv")
       IN  /\ all_CMs = m.all_CMs
           /\ n_objs = m.n_objs
           /\ cert_instances = m.cert_instances
           /\ ca_cert_ci = m.ca_cert_ci
           /\ cksd = m.cksd
           /\ cert_key_stores = m.cert_key_stores
           /\ cks_objs = m.cks_objs
           /\ returned = [n \in Names |->
                             IF n = "srv" THEN {m.all_CMs[n]} ELSE {}]
           /\ last_call = Outcome("CM", "srv", m)
    /\ new_cis = <<>>

\* the operations on the instances of loaded cert metas
NextCI ==
    \/ create_instance
    \/ NewCertInstance
    \/ store_cert_key

SpecCI == InitCI /\ [][NextCI]_vars

\* ------------------------------------------------------------------------
\* Properties of the data model
\* ------------------------------------------------------------------------
\* C8: every CM(db, name) call and every successful construction for a name
\* gave the object the registry holds for the name (so one object per name),
\* and Certificate(db, name) for a registered name raised AssertionError and
\* left the registry as it was.
C8_OneCertificatePerName ==
    /\ \A n \in Names :
          /\ Cardinality(returned[n]) <= 1
          /\ returned[n] # {} => returned[n] = {all_CMs[n]}
    /\ (last_call.op = "Certificate" /\ last_call.all_CMs[last_call.arg] # None) =>
          /\ last_call.result = "AssertionError"
          /\ all_CMs = last_call.all_CMs

\* C8 witness: Certificate() was called for a name CM() had already
\* returned an object for, while two names were registered, and raised
C8_Witness ==
    /\ last_call.op = "Certificate"
    /\ last_call.result = "AssertionError"
    /\ last_call.all_CMs[last_call.arg] # None
    /\ returned[last_call.arg] = {all_CMs[last_call.arg]}
    /\ Cardinality({n \in Names : all_CMs[n] # None}) >= 2

\* C9: the registry maps each hash to one CKS of its own, whose hash is the
\* key and the fingerprint of the CKS's cert, and a creation for a hash
\* already registered raised and left the registry as it was.
C9_OneCertKeyStorePerHash ==
    /\ \A h \in Hashes :
          cert_key_stores[h] # None =>
              /\ cert_key_stores[h] \in 1..Len(cks_objs)
              /\ cks_objs[cert_key_stores[h]].hash = h
              /\ hash_from_cert(cks_objs[cert_key_stores[h]].cert) = h
    /\ \A h1, h2 \in Hashes :
          (h1 # h2 /\ cert_key_stores[h1] # None) =>
              cert_key_stores[h1] # cert_key_stores[h2]
    /\ last_call.dup # NoneStr =>
          /\ last_call.result = "AssertionError"
          /\ cert_key_stores = last_call.cert_key_stores

\* C9 witness: with a loaded and a newly stored CKS registered,
\* store_cert_key was given a cert whose hash was registered, and raised
C9_Witness ==
    /\ last_call.op = "store_cert_key"
    /\ last_call.dup # NoneStr
    /\ last_call.result = "AssertionError"
    /\ \E k1, k2 \in 1..Len(cks_objs) :
          /\ cks_objs[k1].row_id <= Len(InitCertKeyData)
          /\ cert_key_stores[cks_objs[k1].hash] = k1
          /\ cks_objs[k2].row_id > Len(InitCertKeyData)
          /\ cert_key_stores[cks_objs[k2].hash] = k2

\* C10: every CI in memory of a cert that is not a CA has ca_cert_ci set to
\* a CI with a row in CertInstances that belongs to a CA cert.
C10_NonCAInstanceIssuedByCA ==
    \A n \in Names : \A i \in 1..Len(cert_instances[n]) :
        LET c == cert_instances[n][i]
        IN  Subjects[n] # "CA" =>
                /\ ca_cert_ci[c] # None
                /\ ca_cert_ci[c] \in 1..Len(db_ci)
                /\ Subjects[db_ci[ca_cert_ci[c]].cm] = "CA"

\* ------------------------------------------------------------------
\* deployCerts: authorized_until, instance selection, disthosts

\* the cert whose deployment has just been completed (d_cert already
\* points at the next one)
CompletedCert == certs[d_cert - 1]

\* C14: once the deployment of a cert has been completed, a local cert
\* has authorized_until cleared in memory and in the store, and every LE
\* cert still has the authorized_until it had before the run
C14_ClearedForLocalOnly ==
    /\ promoted # NoneStr =>
          (CertMeta[CompletedCert].cert_type = "local" =>
               /\ mem_au[CompletedCert] = None
               /\ db_au[CompletedCert] = None)
    /\ \A c \in CMs :
          CertMeta[c].cert_type = "LE" => mem_au[c] = 1 /\ db_au[c] = 1

\* the local cert has been deployed and cleared, the LE cert deployed
\* before it has kept its authorized_until
C14_Witness ==
    /\ promoted = "yes"
    /\ d_cert = 3
    /\ CompletedCert = "cm2"
    /\ mem_au["cm2"] = None
    /\ db_au["cm2"] = None
    /\ d_arg = None
    /\ \E i \in InstancesOf["cm1"] : ci_state[i] = "deployed"
    /\ mem_au["cm1"] = 1
    /\ db_au["cm1"] = 1

\* an instance has been selected for the current cert and is being
\* deployed
Deploying ==
    d_pc \in {"for_host", "for_jail", "for_place", "distribute", "tlsa",
              "promote"}

\* C17: in a run started without instance_id the id handed to
\* cert.instance for the next cert does not come from an earlier cert,
\* and the instance being deployed belongs to the current cert
C17_OwnInstancePerCert ==
    d_arg = None =>
        /\ (d_pc = "for_cert" /\ d_cert <= Len(certs)) => instance_id = None
        /\ Deploying => instance_id \in InstancesOf[Cert]

\* C18: a cert with disthosts but without a valid instance ends the run
\* with an error before any disthost of it is contacted, without a TLSA
\* file written for it and with the states of its instances as they
\* were before the run
C18_NoInstanceFailsFirst ==
    selected = "none" =>
        /\ d_pc = "raise"
        /\ Len(disthosts) > 0
        /\ DOMAIN visited = {}
        /\ uploads = <<>>
        /\ served = {}
        /\ tlsa_done = None
        /\ promoted = NoneStr
        /\ \A i \in InstancesOf[Cert] : ci_state[i] = InitialState(i)

\* the second cert has no valid instance after the first one has been
\* deployed
C18_Witness ==
    /\ selected = "none"
    /\ d_pc = "raise"
    /\ d_cert = 2
    /\ Len(disthosts) = 2
    /\ \E i \in InstancesOf["cm1"] : ci_state[i] = "deployed"

\* C19: a disthost that is not left out and has no places makes the run
\* report failure: nothing is uploaded to it and the instance of the
\* cert keeps its state
C19_MissingPlaceFails ==
    /\ d_pc = "return_false" =>
          /\ error_found
          /\ Fqdn \notin skip_host
          /\ (only_host # {} => Fqdn \in only_host)
          /\ visited[Fqdn] = 0
          /\ uploads = <<>>
          /\ \A t \in served : t[1] # Fqdn
          /\ promoted = NoneStr
          /\ ci_state[instance_id] = state_before
    /\ \A h \in DOMAIN visited :
          visited[h] = 0 =>
              /\ h = Fqdn
              /\ d_pc \in {"for_jail", "return_false"}

\* the second disthost has no places, the first one has been served
C19_Witness ==
    /\ d_pc = "return_false"
    /\ error_found
    /\ d_host = 2
    /\ visited[Fqdn] = 0
    /\ \E t \in served : t[1] = disthosts[1]
    /\ ci_state[instance_id] = state_before

\* all places of all jails of disthost h have been served
FullyServed(h) ==
    \A j \in 1..Len(JailsOf(h)) :
        \A k \in 1..visited[h] : <<h, JailsOf(h)[j], k>> \in served

\* C20: a disthost in skip_host, or outside a non-empty only_host, is
\* never contacted and receives nothing; every other disthost of a cert
\* whose deployment has been completed has received all its places
C20_OmittedHostsUntouched ==
    /\ \A h \in DOMAIN visited \cup {t[1] : t \in served} :
          /\ h \notin skip_host
          /\ (only_host # {} => h \in only_host)
    /\ (d_pc \in {"for_jail", "for_place", "distribute"}) =>
          /\ Fqdn \notin skip_host
          /\ (only_host # {} => Fqdn \in only_host)
    /\ promoted # NoneStr =>
          \A i \in 1..Len(disthosts) :
              (/\ disthosts[i] \notin skip_host
               /\ (only_host # {} => disthosts[i] \in only_host)) =>
                  /\ disthosts[i] \in DOMAIN visited
                  /\ FullyServed(disthosts[i])

\* only_host names the second disthost: the first one was left out and
\* the second one got its two places
C20_Witness ==
    /\ promoted = "no"
    /\ Len(disthosts) = 2
    /\ only_host = {disthosts[2]}
    /\ skip_host = {}
    /\ DOMAIN visited = {disthosts[2]}
    /\ visited[disthosts[2]] = 2
    /\ FullyServed(disthosts[2])

\* ------------------------------------------------------------------
\* _authorize and update_authorized_until

\* update_authorized_until has returned for the cert
AuthorizedUntilWritten ==
    \E i \in 1..Len(a_log) : a_log[i] = Ev("authorized_until", <<>>)

\* update_authorized_until has refused the value for the cert
AuthorizedUntilRejected ==
    \E i \in 1..Len(a_log) : a_log[i] = Ev("raise", <<"AssertionError">>)

\* C13: for an LE cert a call of update_authorized_until that succeeds
\* leaves a value in memory and in the store, and a rejected clear
\* leaves the value that was stored before, in memory as in the store
C13_NoAbsentAuthorizedUntilForLE ==
    /\ AuthorizedUntilWritten =>
          /\ mem_au[cert_meta] # None
          /\ db_au[cert_meta] # None
    /\ AuthorizedUntilRejected =>
          mem_au[cert_meta] = db_au[cert_meta]

\* ------------------------------------------------------------------
\* CertInstance.active

\* times are whole ticks of the clock, 0..MaxTime
MaxTime == 4

\* lines 875-885: not_before < now() and not_after > now(); each now() is
\* a reading of its own
active(nb, na, now1, now2) == nb < now1 /\ na > now2

\* lines 883-885: return True, return False
BoolStr(b) == IF b THEN "True" ELSE "False"

\* a CertInstance with its validity period, and the clock somewhere
InitActive ==
    /\ IdleDeploy
    /\ IdleAuth
    /\ IdleDM
    /\ IdleDist
    /\ IdleSaveLoad
    /\ IdleSnap
    /\ IdleLE
    /\ IdleCA
    /\ IdlePath
    /\ InitStore
    /\ mem_au = [c \in CMs |-> None]
    /\ db_au = [c \in CMs |-> None]
    /\ zone_dirs = {}
    /\ not_before \in 0..MaxTime
    /\ not_after \in not_before..MaxTime
    /\ clock \in 0..MaxTime
    /\ read_nows = <<>>
    /\ is_active = NoneStr

\* time passes
Tick ==
    /\ clock < MaxTime
    /\ clock' = clock + 1
    /\ UNCHANGED <<not_before, not_after, read_nows, is_active>>
    /\ UNCHANGED nonActiveVars

\* lines 875-885: the property is read; the clock may move on between the
\* two readings
ReadActive ==
    /\ \E later \in {clock, clock + 1} :
          /\ later <= MaxTime
          /\ read_nows' = <<clock, later>>
          /\ is_active' = BoolStr(active(not_before, not_after, clock, later))
          /\ clock' = later
    /\ UNCHANGED <<not_before, not_after>>
    /\ UNCHANGED nonActiveVars

NextActive ==
    \/ Tick
    \/ ReadActive

SpecActive == InitActive /\ [][NextActive]_vars

\* C16: read at one instant now, active is true exactly when
\* not_before <= now <= not_after, both ends included
C16_ActiveIffWithinValidity ==
    (is_active # NoneStr /\ read_nows[1] = read_nows[2]) =>
        (is_active = "True" <=>
            (not_before <= read_nows[1] /\ read_nows[1] <= not_after))

\* ------------------------------------------------------------------
\* CertInstance: cert key stores and rows

\* the algorithms a cert meta's encryption_algo admits
AlgosOf(encryption_algo) ==
    IF encryption_algo = "rsa plus ec" THEN {"rsa", "ec"}
    ELSE {encryption_algo}

\* C11: the cksd of every CI in memory holds at most one CKS per
\* algorithm of {rsa, ec}, each of that algorithm, and only for
\* algorithms the encryption_algo of the CI's cert meta admits
C11_CksdWithinEncryptionAlgo ==
    \A n \in Names :
        \A ci \in Range(cert_instances[n]) :
            /\ DOMAIN cksd[ci] \subseteq {"rsa", "ec"}
            /\ \A a \in DOMAIN cksd[ci] :
                  cksd[ci][a] # None =>
                      /\ cks_objs[cksd[ci][a]].algo = a
                      /\ a \in AlgosOf(EncryptionAlgo[n])

\* C12: every CertKeyData row carries the row_id of a CertInstances row:
\* no cert key store is inserted for a CI that has no row_id yet
C12_CertKeyDataHasParentRow ==
    /\ \A i \in 1..Len(db_ckd) :
          /\ db_ckd[i].ci # None
          /\ db_ckd[i].ci \in 1..Len(db_ci)
    /\ \A k \in 1..Len(cks_objs) :
          /\ cks_objs[k].ci # None
          /\ cks_objs[k].ci \in 1..Len(db_ci)

\* store_cert_key was called on a CI constructed without row_id: the CI
\* got its row, and the CertKeyData row carries it
C12_Witness ==
    /\ last_call.op = "store_cert_key"
    /\ last_call.result = "ok"
    /\ \E i \in 1..Len(new_cis) :
          /\ new_cis[i].row_id = Len(db_ci)
          /\ new_cis[i].row_id > Len(InitCertInstances)
          /\ db_ckd[Len(db_ckd)].ci = new_cis[i].row_id
          /\ cksd[new_cis[i].row_id][db_ckd[Len(db_ckd)].encryption_algo]
                 = Len(cks_objs)

\* line 468: most_recent_instance
most_recent_instance(name) ==
    cert_instances[name][Len(cert_instances[name])]

\* C15: most_recent_instance of a cert meta with instances is the one with
\* the highest row_id
C15_MostRecentHasHighestRowId ==
    \A n \in Names :
        cert_instances[n] # <<>> =>
            most_recent_instance(n) = Max(Range(cert_instances[n]))

\* ========================================================================
\* deployCerts: the files of one place (certdist.py lines 95-138)
\* ========================================================================
\* the place loop stands behind a place whose calls all went through
PlaceCompleted == d_pc = "for_place" /\ uploads # <<>>

UploadedNames == {uploads[i].file_name : i \in 1..Len(uploads)}

\* name and content of the files uploaded for the place
UploadedFiles ==
    {<<uploads[i].file_name, uploads[i].fd>> : i \in 1..Len(uploads)}

C24_KeyPathChangesOnlyKeyDirectory ==
    (PlaceCompleted /\ place.key_path)
    => LET without == PlaceCalls([place EXCEPT !.key_path = FALSE],
                                 Cert, Jail)
       IN  /\ UploadedFiles = {<<without[i].file_name, without[i].fd>> :
                                   i \in 1..Len(without)}
           /\ \A i \in 1..Len(uploads) :
                 uploads[i].dest_dir =
                    IF uploads[i].file_name =
                          key_name(CertMeta[Cert].name,
                                   CertMeta[Cert].subject_type)
                    THEN "key_path" ELSE "cert_path"

\* C25: the reload command of a place is executed exactly once per
\* deployment of the place to a jail, and only after every file of the
\* place was uploaded; never for the empty jail or without reload_command.
C25_ReloadOnceAfterAllFiles ==
    (d_pc \in {"distribute", "for_place"} /\ uploads # <<>>)
    => /\ reloads <= 1
       /\ reloads > 0 => Len(uploads) = Len(PlaceCalls(place, Cert, Jail))
       /\ PlaceCompleted =>
             reloads = IF Jail # "" /\ place.reload_command THEN 1 ELSE 0
       /\ (Jail = "" \/ ~place.reload_command) => reloads = 0

\* C26: a receive timeout during the reload command, or a non-zero exit
\* status of it, does not abort deployCerts: no run ends in an error behind
\* such a reload, the places, jails, disthosts and certs that remain are
\* processed, and the instance is promoted when no disthost was left out.
C26_ReloadTroubleNotFatal ==
    reload_result \in ReloadTroubles =>
        /\ d_pc # "raise"
        /\ PlaceCompleted => <<Fqdn, Jail, d_place - 1>> \in served
        /\ promoted # NoneStr =>
              /\ promoted = "yes" <=> ~SomeHostOmitted
              /\ ~SomeHostOmitted => ci_state[instance_id] = "deployed"

\* C26 witness: the last reload of the cert timed out, the cert was promoted
\* and the run came to its end
C26_Witness ==
    /\ d_pc = "return"
    /\ reload_result = "recv_timeout"
    /\ promoted = "yes"
    /\ ci_state[instance_id] = "deployed"

\* ========================================================================
\* distribute_cert step by step (certdist.py lines 186-301)
\* ========================================================================
\* chan.recv() calls looked at in one reload
MaxRecv == 3

\* what chan.recv(1024) gives: bytes that are ASCII, bytes that are not,
\* b'' at the end of the output, or socket.timeout after 10 s
RecvOutcomes == {"ascii", "other", "empty", "timeout"}

\* data.decode('ascii') (line 288): defined on ASCII bytes only
decode(d) == IF d = "ascii" THEN "text" ELSE "UnicodeDecodeError"

\* (a failed mkdir is passed over)
AfterMkdir_goOn(ok) == "chdir"

\* lines 216-225: mkdir, and the handler that logs and raises again
AfterMkdir(ok) == IF ok THEN "chdir" ELSE "raise"

\* one call of distribute_cert, for any jail argument, any place and a
\* dest_dir that exists or not
InitDist ==
    /\ IdleDeploy
    /\ IdleAuth
    /\ IdleDM
    /\ IdleActive
    /\ IdleSaveLoad
    /\ IdleSnap
    /\ IdleLE
    /\ IdleCA
    /\ IdlePath
    /\ InitStore
    /\ mem_au = [c \in CMs |-> 1]
    /\ db_au = [c \in CMs |-> 1]
    /\ zone_dirs = {}
    /\ x_pc = "ssh_connection"
    /\ x_caller = "in call"
    /\ x_exc = NoneStr
    /\ x_jail \in {NoneStr, "", "j1"}
    /\ x_reload_command \in BOOLEAN
    /\ dest_dir \in {"missing", "exists"}
    /\ x_cwd = "home"
    /\ x_put = NoneStr
    /\ ssh_open = FALSE
    /\ sftp_open = FALSE
    /\ chan_open = FALSE
    /\ LoopLocals

\* line 208 and ssh_connection (lines 158-184)
Connect ==
    /\ x_pc = "ssh_connection"
    /\ UNCHANGED nonDistVars
    /\ \E ok \in BOOLEAN :
          IF ok
          THEN /\ ssh_open' = TRUE
               /\ x_pc' = "open_sftp"
               /\ UNCHANGED x_exc
          ELSE /\ x_exc' = "connect_failed"
               /\ x_pc' = "raise"
               /\ UNCHANGED ssh_open
    /\ UNCHANGED <<x_caller, argVars, sftpVars, sftp_open, chan_open,
                   loopVars>>

\* line 210
OpenSftp ==
    /\ x_pc = "open_sftp"
    /\ UNCHANGED nonDistVars
    /\ sftp_open' = TRUE
    /\ x_pc' = "chdir"
    /\ UNCHANGED <<x_caller, x_exc, argVars, sftpVars, ssh_open, chan_open,
                   loopVars>>

\* lines 211-213
Chdir ==
    /\ x_pc = "chdir"
    /\ UNCHANGED nonDistVars
    /\ IF dest_dir # "missing"
       THEN x_cwd' = "dest_dir" /\ x_pc' = "putfo"
       ELSE UNCHANGED x_cwd /\ x_pc' = "mkdir"
    /\ UNCHANGED <<x_caller, x_exc, argVars, dest_dir, x_put, handleVars,
                   loopVars>>

\* lines 214-225
Mkdir ==
    /\ x_pc = "mkdir"
    /\ UNCHANGED nonDistVars
    /\ \E ok \in BOOLEAN :
          /\ dest_dir' = IF ok THEN "created" ELSE "missing"
          /\ IF AfterMkdir(ok) = "raise"
             THEN /\ x_exc' = "mkdir_failed"
                  /\ x_pc' = "close_sftp"
                  /\ UNCHANGED x_cwd
             ELSE /\ x_cwd' = "dest_dir"
                  /\ x_pc' = "putfo"
                  /\ UNCHANGED x_exc
    /\ UNCHANGED <<x_caller, argVars, x_put, handleVars, loopVars>>

\* lines 227-230
Putfo ==
    /\ x_pc = "putfo"
    /\ UNCHANGED nonDistVars
    /\ \E ok \in BOOLEAN :
          IF ok
          THEN /\ x_put' = x_cwd
               /\ x_pc' = "mode"
               /\ UNCHANGED x_exc
          ELSE /\ x_exc' = "put_failed"
               /\ x_pc' = "close_sftp"
               /\ UNCHANGED x_put
    /\ UNCHANGED <<x_caller, argVars, dest_dir, x_cwd, handleVars,
                   loopVars>>

\* lines 232-263: mode, owner and the postgresql links
SetMode ==
    /\ x_pc = "mode"
    /\ UNCHANGED nonDistVars
    /\ \E ok \in BOOLEAN :
          /\ x_exc' = IF ok THEN NoneStr ELSE "chmod_failed"
          /\ x_pc' = "close_sftp"
    /\ UNCHANGED <<x_caller, argVars, sftpVars, handleVars, loopVars>>

\* the end of the with statement of line 210
CloseSftp ==
    /\ x_pc = "close_sftp"
    /\ UNCHANGED nonDistVars
    /\ sftp_open' = FALSE
    /\ x_pc' = IF x_exc # NoneStr THEN "close_client" ELSE "reload"
    /\ UNCHANGED <<x_caller, x_exc, argVars, sftpVars, ssh_open, chan_open,
                   loopVars>>

\* lines 265-278
ReloadCommand ==
    /\ x_pc = "reload"
    /\ UNCHANGED nonDistVars
    /\ IF x_jail \notin {NoneStr, ""} /\ x_reload_command
       THEN chan_open' = TRUE /\ x_pc' = "while"
       ELSE UNCHANGED chan_open /\ x_pc' = "close_client"
    /\ UNCHANGED <<x_caller, x_exc, argVars, sftpVars, ssh_open, sftp_open,
                   loopVars>>

\* lines 279-281
WhileTest ==
    /\ x_pc = "while"
    /\ UNCHANGED nonDistVars
    /\ \E ready \in (IF exit_ready THEN {TRUE} ELSE BOOLEAN),
          recv_ready \in BOOLEAN :
          /\ exit_ready' = ready
          /\ x_pc' = IF ready \/ timed_out THEN "recv_exit_status"
                     ELSE IF recv_ready THEN "recv"
                     ELSE "while"
    /\ UNCHANGED <<x_caller, x_exc, argVars, sftpVars, handleVars, timed_out,
                   data, remote_result_msg, es_reads, x_recvs, had_timeout,
                   x_late>>

\* lines 282-286
Recv ==
    /\ x_pc = "recv"
    /\ UNCHANGED nonDistVars
    /\ \E o \in RecvOutcomes :
          /\ o \in {"ascii", "other"} => x_recvs < MaxRecv
          /\ x_recvs' = IF x_recvs < MaxRecv THEN x_recvs + 1 ELSE x_recvs
          /\ IF o = "timeout"
             THEN /\ had_timeout' = TRUE
                  /\ x_pc' = "recv_exit_status"
                  /\ UNCHANGED data
             ELSE /\ data' = o
                  /\ x_pc' = "while data"
                  /\ UNCHANGED had_timeout
    /\ UNCHANGED <<x_caller, x_exc, argVars, sftpVars, handleVars, exit_ready,
                   timed_out, remote_result_msg, es_reads, x_late>>

\* lines 287-288
Collect ==
    /\ x_pc = "while data"
    /\ UNCHANGED nonDistVars
    /\ IF data = "empty"
       THEN /\ x_pc' = "while"
            /\ UNCHANGED <<x_exc, remote_result_msg, x_late>>
       ELSE IF decode(data) = "UnicodeDecodeError"
       THEN /\ x_exc' = "decode_error"
            /\ x_pc' = "close_chan"
            /\ UNCHANGED <<remote_result_msg, x_late>>
       ELSE /\ remote_result_msg' = remote_result_msg + 1
            /\ x_late' = IF had_timeout THEN x_late + 1 ELSE x_late
            /\ x_pc' = "recv again"
            /\ UNCHANGED x_exc
    /\ UNCHANGED <<x_caller, argVars, sftpVars, handleVars, exit_ready,
                   timed_out, data, es_reads, x_recvs, had_timeout>>

\* lines 289-295
RecvAgain ==
    /\ x_pc = "recv again"
    /\ UNCHANGED nonDistVars
    /\ \E o \in RecvOutcomes :
          /\ o \in {"ascii", "other"} => x_recvs < MaxRecv
          /\ x_recvs' = IF x_recvs < MaxRecv THEN x_recvs + 1 ELSE x_recvs
          /\ IF o = "timeout"
             THEN /\ had_timeout' = TRUE
                  /\ timed_out' = TRUE
                  /\ x_pc' = "while"
                  /\ UNCHANGED data
             ELSE /\ data' = o
                  /\ x_pc' = "while data"
                  /\ UNCHANGED <<had_timeout, timed_out>>
    /\ UNCHANGED <<x_caller, x_exc, argVars, sftpVars, handleVars, exit_ready,
                   remote_result_msg, es_reads, x_late>>

\* lines 296-301
RecvExitStatus ==
    /\ x_pc = "recv_exit_status"
    /\ UNCHANGED nonDistVars
    /\ es_reads' = es_reads + 1
    /\ exit_ready' = TRUE
    /\ x_pc' = "close_chan"
    /\ UNCHANGED <<x_caller, x_exc, argVars, sftpVars, handleVars, timed_out,
                   data, remote_result_msg, x_recvs, had_timeout, x_late>>

\* the end of the with statement of line 272
CloseChan ==
    /\ x_pc = "close_chan"
    /\ UNCHANGED nonDistVars
    /\ chan_open' = FALSE
    /\ x_pc' = "close_client"
    /\ UNCHANGED <<x_caller, x_exc, argVars, sftpVars, ssh_open, sftp_open,
                   loopVars>>

\* the end of the with statement of line 208
CloseClient ==
    /\ x_pc = "close_client"
    /\ UNCHANGED nonDistVars
    /\ ssh_open' = FALSE
    /\ x_pc' = IF x_exc # NoneStr THEN "raise" ELSE "return"
    /\ UNCHANGED <<x_caller, x_exc, argVars, sftpVars, sftp_open, chan_open,
                   loopVars>>

\* deployCerts behind the call (lines 110-138): no handler
Caller ==
    /\ x_pc \in {"return", "raise"}
    /\ UNCHANGED nonDistVars
    /\ x_caller' = AfterDistribute(IF x_exc = NoneStr THEN "ok" ELSE x_exc)
    /\ x_pc' = "left"
    /\ UNCHANGED <<x_exc, argVars, sftpVars, handleVars, loopVars>>

NextDist ==
    \/ Connect
    \/ OpenSftp
    \/ Chdir
    \/ Mkdir
    \/ Putfo
    \/ SetMode
    \/ CloseSftp
    \/ ReloadCommand
    \/ WhileTest
    \/ Recv
    \/ Collect
    \/ RecvAgain
    \/ RecvExitStatus
    \/ CloseChan
    \/ CloseClient
    \/ Caller

SpecDist == InitDist /\ [][NextDist]_vars

\* C27: in the output loop of the reload command no output is collected
\* after a receive timeout, on the first recv or a later one, and on every
\* path out of the loop the exit status is read exactly once before the
\* channel is closed.
C27_ExitStatusReadOnEveryPath ==
    /\ x_late = 0
    /\ es_reads <= 1
    /\ x_pc = "close_chan" => es_reads = 1

\* C28: when dest_dir is missing and mkdir fails, no file is uploaded, the
\* error leaves distribute_cert and deployCerts, the SSH and SFTP handles are
\* closed and no instance changes its state; a file that is uploaded is
\* uploaded into dest_dir, which exists or was created by the call.
C28_FailedMkdirUploadsNothing ==
    /\ x_exc = "mkdir_failed" =>
          /\ x_put = NoneStr
          /\ dest_dir = "missing"
          /\ x_pc \in {"close_sftp", "close_client", "raise", "left"}
          /\ x_pc \in {"raise", "left"} => ~ssh_open /\ ~sftp_open
          /\ x_pc = "left" => x_caller = "raise"
    /\ x_put # NoneStr => x_put = "dest_dir" /\ dest_dir # "missing"
    /\ (x_pc = "putfo" /\ dest_dir = "created") => x_cwd = "dest_dir"
    /\ ci_state = [i \in Instances |-> InitialState(i)]

\* C28 witness: mkdir failed, the handles are closed, nothing was uploaded
\* and deployCerts has raised
C28_Witness ==
    /\ x_exc = "mkdir_failed"
    /\ x_pc = "left"
    /\ x_caller = "raise"
    /\ x_put = NoneStr
    /\ ~ssh_open
    /\ ~sftp_open

\* ========================================================================
\* _authorize: an fqdn without dns-01 challenge (issue_LE.py lines 221-238)
\* ========================================================================
\* the server has offered no dns-01 challenge for some fqdn
NoDns01Offered ==
    \E i \in 1..Len(a_log) :
        \/ a_log[i].e = "no dns-01"
        \/ a_log[i] = Ev("raise", <<"no dns-01">>)

\* C30: when the server offers no dns-01 challenge for an fqdn, _authorize
\* ends with an error before any include file is written, before any SOA
\* bump and name server reload, and authorized_until stays as it was.
C30_NoDns01FailsBeforeAnyWrite ==
    NoDns01Offered =>
        /\ a_pc = "raise"
        /\ include = <<>>
        /\ zones = <<>>
        /\ Events("write includes") = {}
        /\ Events("SOA") = {}
        /\ Events("reload") = {}
        /\ unpublished = {}
        /\ bumped = {}
        /\ zone_cache = {}
        /\ ~AuthorizedUntilWritten
        /\ ~AuthorizedUntilRejected
        /\ authorized_until = None
        /\ mem_au[cert_meta] = db_au[cert_meta]
        /\ mem_au[cert_meta] \in {None, 1}

\* C30 witness: the first fqdn got its challenge, the second one none
C30_Witness ==
    /\ NoDns01Offered
    /\ a_pc = "raise"
    /\ a_fqdn = 2
    /\ Len(a_log) = 2
    /\ a_log[1].e = "new_authorization"

\* ========================================================================
\* issue_LE_cert around _authorize (issue_LE.py lines 91-167)
\* ========================================================================
\* times at which issue_LE_cert is called
MaxNow == 3

\* (an authorization that ends now is renewed)
NeedsAuthorization_unlessLater(au, now) == ~(au # None /\ au > now)

\* lines 114-115: not (authorized_until and authorized_until >= now)
NeedsAuthorization(au, now) == ~(au # None /\ au >= now)

InitIssue ==
    /\ IdleDeploy
    /\ IdleDM
    /\ IdleActive
    /\ IdleDist
    /\ IdleSaveLoad
    /\ IdleSnap
    /\ IdleLE
    /\ IdleCA
    /\ IdlePath
    /\ InitStore
    /\ i_pc = "entry"
    /\ i_now \in 1..MaxNow
    /\ i_au \in {None} \cup (1..MaxNow)
    /\ mem_au = [c \in CMs |-> i_au]
    /\ db_au = [c \in CMs |-> i_au]
    /\ a_pc = "idle"
    /\ cert_meta \in {c \in CMs : CertMeta[c].cert_type = "LE"}
    /\ zone_dirs \in SUBSET {<<"ex", "org">>, <<"b", "ex", "org">>,
                            <<"net">>}
    /\ a_fqdn = 1
    /\ authz = <<>>
    /\ zones = <<>>
    /\ include = <<>>
    /\ done = {}
    /\ failed = {}
    /\ authorized_until = None
    /\ polls = 0
    /\ reported = {}
    /\ a_log = <<>>

\* lines 114-116
IssueEntry ==
    /\ i_pc = "entry"
    /\ UNCHANGED nonAuthVars
    /\ IF NeedsAuthorization(mem_au[cert_meta], i_now)
       THEN i_pc' = "_authorize" /\ a_pc' = "new_authorization"
       ELSE i_pc' = "issue_certificate" /\ UNCHANGED a_pc
    /\ UNCHANGED <<i_now, i_au, cert_meta, a_fqdn, authz, zones, include, done,
                   failed, authorized_until, polls, reported, a_log, auVars,
                   dnsVars>>

\* lines 116-117: _authorize has ended
AuthorizeReturns ==
    /\ i_pc = "_authorize"
    /\ UNCHANGED nonAuthVars
    /\ a_pc \in {"return True", "return False", "raise"}
    /\ i_pc' = CASE a_pc = "return True" -> "issue_certificate"
                 [] a_pc = "return False" -> "return False"
                 [] OTHER -> "raise"
    /\ UNCHANGED <<i_now, i_au, a_pc, cert_meta, a_fqdn, authz, zones, include,
                   done, failed, authorized_until, polls, reported, a_log,
                   auVars, dnsVars>>

\* lines 119-167: key, CSR, acme.issue_certificate(csr) and what follows
IssueCertificate ==
    /\ i_pc = "issue_certificate"
    /\ UNCHANGED nonAuthVars
    /\ \E result \in {"certificate", "IOError"} :
          i_pc' = IF result = "IOError" THEN "raise at issue"
                  ELSE "return True"
    /\ UNCHANGED <<i_now, i_au, a_pc, cert_meta, a_fqdn, authz, zones, include,
                   done, failed, authorized_until, polls, reported, a_log,
                   auVars, dnsVars>>

NextIssue ==
    \/ IssueEntry
    \/ NewAuthorization
    \/ WriteChallenges
    \/ AuthUpdateSOA1
    \/ AuthReload1
    \/ Validate
    \/ Poll
    \/ Persist
    \/ Truncate
    \/ AuthUpdateSOA2
    \/ AuthReload2
    \/ AuthorizeReturns
    \/ IssueCertificate

SpecIssue == InitIssue /\ [][NextIssue]_vars

\* acme.issue_certificate is about to be, or was, called
IssuanceRequested ==
    i_pc \in {"issue_certificate", "return True", "raise at issue"}

\* C29: issue_LE_cert runs _authorize exactly when authorized_until is absent
\* or earlier than now; otherwise nothing of the authorization happens before
\* issuance: no request, no include file, no SOA bump, no reload, no write
\* of authorized_until.
C29_AuthorizeIffNotAuthorized ==
    i_pc \notin {"idle", "entry"} =>
        /\ a_pc # "idle" <=> (i_au = None \/ i_au < i_now)
        /\ a_pc = "idle" =>
              /\ IssuanceRequested
              /\ a_log = <<>>
              /\ authz = <<>>
              /\ include = <<>>
              /\ unpublished = {}
              /\ bumped = {}
              /\ zone_cache = {}
              /\ mem_au[cert_meta] = i_au
              /\ db_au[cert_meta] = i_au

\* C29 witness: an authorization that ends at this very moment is taken as
\* it is and issuance is requested
C29_Witness ==
    /\ i_pc = "issue_certificate"
    /\ a_pc = "idle"
    /\ i_au = i_now

\* C23: issue_LE_cert never requests issuance in a run in which _authorize
\* ran and some fqdn ended in a status other than 'valid'; _authorize returns
\* success exactly when every fqdn ended in 'valid'; and every fqdn ends in
\* exactly one of the sets done and failed.
C23_IssuanceOnlyWhenAllValid ==
    /\ (IssuanceRequested /\ a_pc # "idle") =>
          done = Range(FQDNs) /\ failed = {}
    /\ a_pc \in {"return True", "return False", "raise"} =>
          (a_pc = "return True" <=> done = Range(FQDNs))
    /\ a_pc \in {"return True", "return False"} =>
          /\ done \cap failed = {}
          /\ done \cup failed = Range(FQDNs)

\* ---------------------------------------------------------------------------
\* CertInstance._save and CertInstance(row_id=...) (cert.py lines 638-672,
\* 689-763, 796-870): one CertInstance object is saved, given certs, and
\* built anew from its row id
\* ---------------------------------------------------------------------------

MaxDay == 2

\* a datetime.datetime: the day and the time of day (0 is midnight)
DateTimes == [day : 1..MaxDay, time : 0..1]

\* not_before / not_after of a CI that has none (Python's None, SQL NULL)
NoDate == [day |-> 0, time |-> 0]

\* lines 656, 663, 670: not_before and not_after are written as $4::DATE and
\* $5::DATE, the time of day does not reach the table
DATE(dt) == [day |-> dt.day, time |-> 0]

\* cert.not_valid_before and cert.not_valid_after of an issued cert
\* (lines 859, 861)
not_valid_before(cert) == [day |-> 1, time |-> 1]
not_valid_after(cert) == [day |-> MaxDay, time |-> 1]

\* self.ca_cert_ci.row_id (lines 812, 823, 838); ca = None stands for
\* ca_cert_ci being the CI itself (line 762)
CaRowId(ci) == IF ci.ca = None THEN ci.row_id ELSE ci.ca

\* table CertInstances before the process starts: the CA's instance (row 1,
\* issued by itself) and one instance of a server cert issued by it (row 2)
InitRows ==
    << [subject_type |-> "CA", state |-> "issued", ocsp_ms |-> FALSE,
        not_before |-> [day |-> 1, time |-> 0],
        not_after |-> [day |-> MaxDay, time |-> 0], cacert |-> 1],
       [subject_type |-> "server", state |-> "issued", ocsp_ms |-> FALSE,
        not_before |-> [day |-> 1, time |-> 0],
        not_after |-> [day |-> MaxDay, time |-> 0], cacert |-> 1] >>

\* CertInstance objects of the process (lines 689-763): fresh ones
\* (row_id None; a non-CA one needs a ca_cert_ci, line 723) and ones loaded
\* from rows 1 and 2 and changed in memory since
CertInstanceObjects ==
    { ci \in [subject_type : {"CA", "server"},
              state : {"reserved", "issued"},
              ocsp_ms : BOOLEAN,
              not_before : DateTimes \cup {NoDate},
              not_after : DateTimes \cup {NoDate},
              ca : {None, 1},
              row_id : {None, 1, 2},
              cks : {{}}] :
        /\ ci.subject_type = "server" => ci.ca = 1 /\ ci.row_id \in {None, 2}
        /\ ci.subject_type = "CA" => ci.row_id \in {None, 1}
        /\ ci.row_id = 1 => ci.ca = None
        /\ (ci.not_before = NoDate) = (ci.not_after = NoDate)
        /\ ci.not_before.day <= ci.not_after.day }

InitSaveLoad ==
    /\ IdleDeploy
    /\ IdleAuth
    /\ IdleDM
    /\ IdleActive
    /\ IdleDist
    /\ IdleSnap
    /\ IdleLE
    /\ IdleCA
    /\ IdlePath
    /\ InitStore
    /\ mem_au = [c \in CMs |-> 1]
    /\ db_au = [c \in CMs |-> 1]
    /\ zone_dirs = {}
    /\ s_pc = "unsaved"
    /\ s_ci \in CertInstanceObjects
    /\ s_exc = NoneStr
    /\ s_rows = InitRows
    /\ s_ckd = <<>>
    /\ s_loaded = NoneStr

\* the row _save writes for ci (lines 817-839, queries of lines 653-672)
RowOf(ci) ==
    [subject_type |-> ci.subject_type, state |-> ci.state,
     ocsp_ms |-> ci.ocsp_ms,
     not_before |-> DATE(ci.not_before), not_after |-> DATE(ci.not_after),
     cacert |-> CaRowId(ci)]

\* lines 796-841: what _save leaves behind for ci: the object, the table and
\* the error it ended with
SaveResult(ci) ==
    IF ci.row_id # None
    THEN [ci |-> ci, rows |-> [s_rows EXCEPT ![ci.row_id] = RowOf(ci)],
          exc |-> NoneStr]
    ELSE IF CertInstance_save(ci.ca) # "ok"
    THEN [ci |-> ci, rows |-> s_rows, exc |-> CertInstance_save(ci.ca)]
    ELSE LET saved == [ci EXCEPT !.row_id = Len(s_rows) + 1]
         IN  [ci |-> saved, rows |-> Append(s_rows, RowOf(saved)),
              exc |-> NoneStr]

\* cm.save_instance(ci) / ci._save() (lines 431-440, 796-841)
Save ==
    /\ UNCHANGED nonSaveLoadVars
    /\ s_pc \in {"unsaved", "saved"}
    /\ LET r == SaveResult(s_ci)
       IN  /\ s_ci' = r.ci
           /\ s_rows' = r.rows
           /\ s_exc' = r.exc
           /\ s_pc' = IF r.exc = NoneStr THEN "saved" ELSE "raised"
    /\ UNCHANGED <<s_ckd, s_loaded>>

\* lines 843-873: ci.store_cert_key(algo, cert, key): not_before and
\* not_after are taken from the cert if the CI has none, the CI is saved if
\* it has no row id, and the new CertKeyStore saves itself (line 1028)
StoreCertKey ==
    /\ UNCHANGED nonSaveLoadVars
    /\ s_pc \in {"unsaved", "saved"}
    /\ \E algo \in EncAlgoCKS, cert \in X509Certs :
          /\ \A k \in s_ci.cks : k[1] # algo
          /\ LET dated == [s_ci EXCEPT
                             !.not_before = IF @ = NoDate
                                            THEN not_valid_before(cert)
                                            ELSE @,
                             !.not_after = IF @ = NoDate
                                           THEN not_valid_after(cert)
                                           ELSE @]
                 r == IF NeedsSave(dated.row_id) THEN SaveResult(dated)
                      ELSE [ci |-> dated, rows |-> s_rows, exc |-> NoneStr]
                 hash == hash_from_cert(load_pem_x509_certificate(
                                            [form |-> "pem", body |-> cert]))
             IN  /\ s_rows' = r.rows
                 /\ s_exc' = r.exc
                 /\ IF r.exc # NoneStr
                    THEN /\ s_pc' = "raised"
                         /\ s_ci' = r.ci
                         /\ UNCHANGED s_ckd
                    ELSE /\ s_pc' = IF NeedsSave(s_ci.row_id) THEN "saved"
                                    ELSE IF dated # s_ci THEN "unsaved"
                                    ELSE s_pc
                         /\ s_ci' = [r.ci EXCEPT
                                       !.cks = @ \cup {<<algo, hash>>}]
                         /\ s_ckd' = Append(s_ckd,
                                        [ci |-> r.ci.row_id,
                                         encryption_algo |-> algo,
                                         hash |-> hash])
    /\ UNCHANGED s_loaded

\* lines 725-759: CertInstance(row_id=...) of the saved CI in a process that
\* has not loaded it: the attributes come from the row, a CI of a CA cert
\* meta is its own ca_cert_ci, and not_before.isoformat() of line 748 needs
\* a date
Load ==
    /\ UNCHANGED nonSaveLoadVars
    /\ s_pc = "saved"
    /\ LET row == s_rows[s_ci.row_id]
           ckd == { s_ckd[i] : i \in
                      { j \in 1..Len(s_ckd) : s_ckd[j].ci = s_ci.row_id } }
       IN  IF row.not_before = NoDate \/ row.not_after = NoDate
           THEN /\ s_pc' = "raised"
                /\ s_exc' = "AttributeError"
                /\ UNCHANGED s_loaded
           ELSE /\ s_pc' = "loaded"
                /\ s_exc' = NoneStr
                /\ s_loaded' =
                      [subject_type |-> row.subject_type,
                       state |-> row.state,
                       ocsp_ms |-> row.ocsp_ms,
                       not_before |-> row.not_before,
                       not_after |-> row.not_after,
                       ca |-> IF row.subject_type = "CA" THEN None
                              ELSE row.cacert,
                       row_id |-> s_ci.row_id,
                       cks |-> { <<k.encryption_algo, k.hash>> : k \in ckd }]
    /\ UNCHANGED <<s_ci, s_rows, s_ckd>>

NextSaveLoad ==
    \/ Save
    \/ StoreCertKey
    \/ Load

SpecSaveLoad == InitSaveLoad /\ [][NextSaveLoad]_vars

\* C22: saving a CertInstance with _save and then loading a CertInstance
\* with the returned row id yields the same state, ocsp_ms, not_before,
\* not_after and ca_cert_ci.row_id, and a cksd with the same algorithm keys
\* and the same hashes
C22_SaveThenLoadYieldsTheSame ==
    s_pc = "loaded" =>
        /\ s_loaded.state = s_ci.state
        /\ s_loaded.ocsp_ms = s_ci.ocsp_ms
        /\ s_loaded.not_before = s_ci.not_before
        /\ s_loaded.not_after = s_ci.not_after
        /\ CaRowId(s_loaded) = CaRowId(s_ci)
        /\ s_loaded.cks = s_ci.cks

\* ---------------------------------------------------------------------------
\* zone_and_FQDN_from_altnames: which zone an fqdn is paired with
\* ---------------------------------------------------------------------------

\* C31: every FQDN of [name] ++ altnames with at least one suffix directory
\* under zone_root is paired with the longest suffix whose directory exists
C31_PairedWithLongestExistingSuffix ==
    zones # <<>> =>
        \A k \in 1..Len(FQDNs) :
            ZoneOf(FQDNs[k]) # <<>> =>
                \E z \in DOMAIN zones :
                    /\ \E i \in 1..Len(zones[z]) : zones[z][i] = FQDNs[k]
                    /\ \A j \in 1..Len(FQDNs[k]) :
                          Suffix(FQDNs[k], j) \in zone_dirs => j <= Len(z)

\* ---------------------------------------------------------------------------
\* Certificate.__init__ (cert.py lines 293-399) while other processes commit
\* statements: the with block of line 316 (SERIALIZABLE, READ ONLY) holds
\* the one statement q_all_cert_meta; q_instances (line 397) and every
\* q_load_instance (line 399, CertInstance.__init__ line 727) run after the
\* block has ended, each as a statement of its own
\* ---------------------------------------------------------------------------

MaxCommits == 2

\* the rows of one cert: authorized_until of its Certificates row and the
\* state of each of its CertInstances rows ("no row" where there is none)
SnapRows == 1..3

InitSnapStore ==
    [authorized_until |-> None,
     rows |-> [r \in SnapRows |-> IF r = 3 THEN "no row" ELSE "issued"]]

\* q_instances: SELECT id ... ORDER BY id DESC (lines 87-92)
RECURSIVE q_instances(_, _)
q_instances(store, n) ==
    IF n = 0 THEN <<>>
    ELSE (IF store.rows[n] # "no row" THEN <<n>> ELSE <<>>)
            \o q_instances(store, n - 1)

\* the memory a Certificate.__init__ would build from one state of the store
ViewOf(store) ==
    [authorized_until |-> store.authorized_until,
     cert_instances |-> q_instances(store, 3),
     state |-> [r \in SnapRows |-> store.rows[r]]]

InitSnap ==
    /\ IdleDeploy
    /\ IdleAuth
    /\ IdleDM
    /\ IdleActive
    /\ IdleDist
    /\ IdleSaveLoad
    /\ IdleLE
    /\ IdleCA
    /\ IdlePath
    /\ InitStore
    /\ mem_au = [c \in CMs |-> 1]
    /\ db_au = [c \in CMs |-> 1]
    /\ zone_dirs = {}
    /\ t_pc = "all_cert_meta"
    /\ t_store = InitSnapStore
    /\ t_hist = {InitSnapStore}
    /\ t_commits = 0
    /\ t_view = [authorized_until |-> None, cert_instances |-> <<>>,
                 state |-> [r \in SnapRows |-> "no row"]]
    /\ t_todo = <<>>

\* one statement of another process is committed: update_authorized_until
\* (q_update_authorized_until, lines 106-110), _save of a new instance
\* (q_store_instance, lines 653-658), _save of a changed instance
\* (q_update_instance, lines 667-672) or _delete (q_delete_instance,
\* lines 648-651)
ConcurrentCommit ==
    /\ UNCHANGED nonSnapVars
    /\ t_pc \notin {"idle", "done", "raise"}
    /\ t_commits < MaxCommits
    /\ \E next \in
          {[t_store EXCEPT !.authorized_until = 1]}
          \cup {[t_store EXCEPT !.rows[r] = "issued"] :
                    r \in {x \in SnapRows : t_store.rows[x] = "no row"}}
          \cup {[t_store EXCEPT !.rows[r] = "deployed"] :
                    r \in {x \in SnapRows : t_store.rows[x] = "issued"}}
          \cup {[t_store EXCEPT !.rows[r] = "archived"] :
                    r \in {x \in SnapRows : t_store.rows[x] = "deployed"}}
          \cup {[t_store EXCEPT !.rows[r] = "no row"] :
                    r \in {x \in SnapRows : t_store.rows[x] # "no row"}} :
          /\ next # t_store
          /\ t_store' = next
          /\ t_hist' = t_hist \cup {next}
    /\ t_commits' = t_commits + 1
    /\ UNCHANGED <<t_pc, t_view, t_todo>>

\* lines 316-387: the transaction with its one statement, q_all_cert_meta
AllCertMeta ==
    /\ UNCHANGED nonSnapVars
    /\ t_pc = "all_cert_meta"
    /\ t_view' = [t_view EXCEPT
                     !.authorized_until = t_store.authorized_until]
    /\ t_pc' = "instances"
    /\ UNCHANGED <<t_store, t_hist, t_commits, t_todo>>

\* lines 393-397: ps_instances(self.row_id), outside the transaction
ReadInstances ==
    /\ UNCHANGED nonSnapVars
    /\ t_pc = "instances"
    /\ t_todo' = q_instances(t_store, 3)
    /\ t_pc' = "load"
    /\ UNCHANGED <<t_store, t_hist, t_commits, t_view>>

\* lines 398-399 with lines 725-759: one CertInstance(row_id=...) is built
\* and appended; a row that is gone raises AssertionError (line 729)
LoadInstance ==
    /\ UNCHANGED nonSnapVars
    /\ t_pc = "load"
    /\ t_todo # <<>>
    /\ IF t_store.rows[Head(t_todo)] = "no row"
       THEN /\ t_pc' = "raise"
            /\ UNCHANGED <<t_view, t_todo>>
       ELSE /\ t_view' = [t_view EXCEPT
                            !.cert_instances = Append(@, Head(t_todo)),
                            !.state[Head(t_todo)] =
                                  t_store.rows[Head(t_todo)]]
            /\ t_todo' = Tail(t_todo)
            /\ UNCHANGED t_pc
    /\ UNCHANGED <<t_store, t_hist, t_commits>>

\* line 399 was the last statement of the constructor
Constructed ==
    /\ UNCHANGED nonSnapVars
    /\ t_pc = "load"
    /\ t_todo = <<>>
    /\ t_pc' = "done"
    /\ UNCHANGED <<t_store, t_hist, t_commits, t_view, t_todo>>

NextSnap ==
    \/ ConcurrentCommit
    \/ AllCertMeta
    \/ ReadInstances
    \/ LoadInstance
    \/ Constructed

SpecSnap == InitSnap /\ [][NextSnap]_vars

\* C32: the reads of a Certificate's meta rows, of its instance id list and
\* of every instance happen inside one serializable read-only transaction:
\* whatever other processes commit meanwhile, the constructor ends, and the
\* CM and CIs in memory are those of one committed state of the store
C32_ConstructedFromOneStoreState ==
    /\ t_pc # "raise"
    /\ t_pc = "done" => \E st \in t_hist : t_view = ViewOf(st)

\* ---------------------------------------------------------------------------
\* _authorize runs on: the interpreter executes the next statement of the
\* function as long as there is one, and the server's answers are pending at
\* most MaxPoll times for an fqdn
\* ---------------------------------------------------------------------------
SpecAuthLive == InitAuth /\ [][NextAuth]_vars /\ WF_vars(NextAuth)

\* C33: if every authorization reaches a status other than 'pending' and no
\* ACME call fails (no IOError, a dns-01 challenge for every fqdn, a
\* readable expiry with every 'valid'), _authorize runs through the
\* validation and polling of every FQDN and returns after the teardown
C33_AuthorizeReturnsAfterTeardown ==
    <>(\/ a_pc \in {"return True", "return False"}
       \/ /\ a_pc = "raise"
          /\ a_log[Len(a_log)].arg \in {<<"IOError">>, <<"no dns-01">>,
                                        <<"ParseError">>})

\* ---------------------------------------------------------------------------
\* issue_LE_cert after acme.issue_certificate (issue_LE.py lines 126-164) and
\* _get_intermediate_instance (lines 181-207), run after run.
\* create_CAcert_meta (pki.cacert) and update_certinstance (pki.utils) are
\* modelled from the specification: the CA cert meta is created if needed, a
\* new CA instance is created for it, and the intermediate is stored in that
\* instance
\* ---------------------------------------------------------------------------

MaxRuns == 3

\* fingerprints of the intermediate certs Let's Encrypt signs with
Intermediates == {"int X3", "int X4"}

\* int_cert.fingerprint(SHA256()), hexlified (lines 185-186), and the
\* fingerprint of the cert issued by run n (lines 149-150)
NoHash == <<"no cert", 0>>
IntermediateHash(int_cert) == <<int_cert, 0>>
LeafHash(n) == <<"leaf", n>>

\* the store before the first run: no instance yet, or the root CA's
InitLERows ==
    {<<>>,
     << [type |-> "CA", hash |-> <<"root", 0>>, cacert |-> 1] >>}

\* lines 188-190: SELECT id FROM CertInstances WHERE hash = $1, first row
query_LE_intermediate(rows, hash) ==
    LET ids == {i \in 1..Len(rows) : rows[i].hash = hash}
    IN  IF ids = {} THEN None
        ELSE CHOOSE i \in ids : \A j \in ids : i <= j

\* (a new CA instance for every run)
ReusesInstance_never(inst_id) == FALSE

\* lines 191-192: if instance_id: return instance_id
ReusesInstance(inst_id) == inst_id # None

\* create_CAcert_meta(db, 'LE', SUBJECT_LE_CA): a new instance of the CA cert
\* meta, issued by itself, without a cert yet; its row id is returned
create_CAcert_meta(rows) ==
    Append(rows, [type |-> "CA", hash |-> NoHash, cacert |-> Len(rows) + 1])

\* update_certinstance(db, instance_id, cert_pem, b'', hash, ...): cert and
\* hash are stored in the row
update_certinstance(rows, inst_id, hash) ==
    [rows EXCEPT ![inst_id].hash = hash]

InitLE ==
    /\ IdleDeploy
    /\ IdleAuth
    /\ IdleDM
    /\ IdleActive
    /\ IdleDist
    /\ IdleSaveLoad
    /\ IdleSnap
    /\ IdleCA
    /\ IdlePath
    /\ InitStore
    /\ mem_au = [c \in CMs |-> 1]
    /\ db_au = [c \in CMs |-> 1]
    /\ zone_dirs = {}
    /\ le_pc = "issue_certificate"
    /\ le_rows \in InitLERows
    /\ le_intcert = NoneStr
    /\ le_instance_id = None
    /\ le_runs = 0

\* lines 126-141: a run of issue_LE_cert gets its cert issued; without an
\* intermediate in the result the process exits
issue_certificate ==
    /\ UNCHANGED nonLEVars
    /\ le_pc \in {"issue_certificate", "return True", "return None",
                  "raise", "exit"}
    /\ le_runs < MaxRuns
    /\ le_runs' = le_runs + 1
    /\ le_instance_id' = None
    /\ \E intermediate \in Intermediates \cup {NoneStr} :
          /\ le_intcert' = intermediate
          /\ le_pc' = IF intermediate = NoneStr THEN "exit"
                      ELSE "_get_intermediate_instance"
    /\ UNCHANGED le_rows

\* lines 181-207: _get_intermediate_instance(cert_meta.db, intcert)
get_intermediate_instance ==
    /\ UNCHANGED nonLEVars
    /\ le_pc = "_get_intermediate_instance"
    /\ LET hash == IntermediateHash(le_intcert)
           inst_id == query_LE_intermediate(le_rows, hash)
           created == create_CAcert_meta(le_rows)
       IN  IF ReusesInstance(inst_id)
           THEN /\ le_instance_id' = inst_id
                /\ le_pc' = "insert_LE_instance"
                /\ UNCHANGED le_rows
           ELSE \E updates \in {0, 1} :
                   IF updates # 1
                   THEN /\ le_rows' = created
                        /\ le_pc' = "raise"
                        /\ UNCHANGED le_instance_id
                   ELSE /\ le_rows' = update_certinstance(created,
                                                          Len(created), hash)
                        /\ le_instance_id' = Len(created)
                        /\ le_pc' = "insert_LE_instance"
    /\ UNCHANGED <<le_intcert, le_runs>>

\* lines 152-166: the issued cert is inserted as a new instance whose cacert
\* is intcert_instance_id; without a returned id the function falls off its
\* end
insert_LE_instance ==
    /\ UNCHANGED nonLEVars
    /\ le_pc = "insert_LE_instance"
    /\ \E stored \in BOOLEAN :
          IF stored
          THEN /\ le_rows' = Append(le_rows,
                                    [type |-> "leaf",
                                     hash |-> LeafHash(le_runs),
                                     cacert |-> le_instance_id])
               /\ le_pc' = "return True"
          ELSE /\ le_pc' = "return None"
               /\ UNCHANGED le_rows
    /\ UNCHANGED <<le_intcert, le_instance_id, le_runs>>

NextLE ==
    \/ issue_certificate
    \/ get_intermediate_instance
    \/ insert_LE_instance

SpecLE == InitLE /\ [][NextLE]_vars

\* C34: across any sequence of LE issuances an intermediate cert with a
\* given fingerprint is stored in at most one CA instance, a CA instance is
\* created only when none holds the fingerprint (so every CA instance made
\* by a run that went on holds a different one), and every leaf instance
\* references the instance whose hash is the fingerprint of its intermediate
C34_IntermediateStoredOnce ==
    /\ \A int_cert \in Intermediates :
          Cardinality({i \in 1..Len(le_rows) :
                          le_rows[i].hash = IntermediateHash(int_cert)}) <= 1
    /\ le_pc = "insert_LE_instance" =>
          /\ le_instance_id \in 1..Len(le_rows)
          /\ le_rows[le_instance_id].hash = IntermediateHash(le_intcert)
    /\ \A i \in 1..Len(le_rows) :
          le_rows[i].type = "leaf" =>
              /\ le_rows[i].cacert \in 1..Len(le_rows)
              /\ le_rows[le_rows[i].cacert].type = "CA"
              /\ le_rows[le_rows[i].cacert].hash[1] \in Intermediates
    /\ le_pc = "return True" =>
          le_rows[le_rows[Len(le_rows)].cacert].hash
              = IntermediateHash(le_intcert)

\* C34 witness: two runs got the same intermediate; the second reused the
\* instance the first had created, and both leaf instances reference it
C34_Witness ==
    /\ le_pc = "return True"
    /\ le_runs >= 2
    /\ \E i, j \in 1..Len(le_rows) :
          /\ i < j
          /\ le_rows[i].type = "leaf"
          /\ le_rows[j].type = "leaf"
          /\ le_rows[i].cacert = le_rows[j].cacert
          /\ j = Len(le_rows)

\* ---------------------------------------------------------------------------
\* Certificate.ca_cert_meta (cert.py lines 218-249) with CM (lines 177-186)
\* and the part of Certificate.__init__ it depends on (lines 293-321)
\* ---------------------------------------------------------------------------

CANames == {"Local CA", "LE CA", "LE CA 2"}

CertTypes == {"LE", "local"}

\* a name without Certificates row, and a name not in _all_CMs
NoRow == [row_id |-> None, cert_type |-> NoneStr]
NotRegistered == [registered |-> FALSE, row_id |-> None,
                  cert_type |-> NoneStr]

\* lines 293-321: Certificate(db, name) registers itself (line 307), sets
\* row_id to None (line 314) and takes row_id and cert_type from the first
\* row of q_all_cert_meta, if there is one
Certificate_meta(db, name) ==
    [registered |-> TRUE, row_id |-> db[name].row_id,
     cert_type |-> db[name].cert_type]

\* lines 183-186: CM(db, name) gives the registered object if there is one
CM_of(reg, db, name) ==
    IF reg[name].registered THEN reg[name] ELSE Certificate_meta(db, name)

\* line 243: the second CM(db, name), while the local cm still holds the
\* object the first one registered
CM_again(reg, db, name) == CM_of(reg, db, name)

\* line 244: if cm.row_id and cm.cert_type == cert_type
Inserted(cm, cert_type) == cm.row_id # None /\ cm.cert_type = cert_type

InitCA ==
    /\ IdleDeploy
    /\ IdleAuth
    /\ IdleDM
    /\ IdleActive
    /\ IdleDist
    /\ IdleSaveLoad
    /\ IdleSnap
    /\ IdleLE
    /\ IdlePath
    /\ InitStore
    /\ mem_au = [c \in CMs |-> 1]
    /\ db_au = [c \in CMs |-> 1]
    /\ zone_dirs = {}
    /\ ca_all_CMs = [n \in CANames |-> NotRegistered]
    /\ ca_db = [n \in CANames |->
                  IF n = "Local CA"
                  THEN [row_id |-> 1, cert_type |-> "local"] ELSE NoRow]
    /\ ca_result = [name |-> NoneStr, cert_type |-> NoneStr,
                    returned |-> NoneStr, cm |-> NotRegistered,
                    inserted |-> FALSE]

\* lines 218-249: Certificate.ca_cert_meta(db, name, cert_type); a CM that
\* is not returned is garbage when the call ends and __del__ takes it out of
\* _all_CMs (lines 286-291)
ca_cert_meta ==
    /\ UNCHANGED nonCAVars
    /\ \E name \in CANames, cert_type \in CertTypes \cup {NoneStr} :
          LET cm == CM_of(ca_all_CMs, ca_db, name)
              reg1 == [ca_all_CMs EXCEPT ![name] = cm]
              new_id == 1 + Cardinality({n \in CANames :
                                            ca_db[n].row_id # None})
              db2 == [ca_db EXCEPT ![name] = [row_id |-> new_id,
                                             cert_type |-> cert_type]]
              cm2 == CM_again(reg1, db2, name)
              Result(ret, obj, ins) ==
                  [name |-> name, cert_type |-> cert_type,
                   returned |-> ret, cm |-> obj, inserted |-> ins]
          IN  IF cm.row_id # None
              THEN /\ ca_all_CMs' = reg1
                   /\ ca_result' = Result("cm", cm, FALSE)
                   /\ UNCHANGED ca_db
              ELSE IF cert_type = NoneStr
              THEN /\ ca_all_CMs' = [reg1 EXCEPT ![name] = NotRegistered]
                   /\ ca_result' = Result("AssertionError", NotRegistered,
                                          FALSE)
                   /\ UNCHANGED ca_db
              ELSE /\ ca_db' = db2
                   /\ IF Inserted(cm2, cert_type)
                      THEN /\ ca_all_CMs' = [reg1 EXCEPT ![name] = cm2]
                           /\ ca_result' = Result("cm", cm2, TRUE)
                      ELSE /\ ca_all_CMs' =
                                 [reg1 EXCEPT ![name] = NotRegistered]
                           /\ ca_result' = Result("None", NotRegistered,
                                                  TRUE)

\* the caller lets go of a CM: Certificate.__del__ (lines 286-291)
ReleaseCM ==
    /\ UNCHANGED nonCAVars
    /\ \E name \in CANames :
          /\ ca_all_CMs[name].registered
          /\ ca_all_CMs' = [ca_all_CMs EXCEPT ![name] = NotRegistered]
    /\ UNCHANGED <<ca_db, ca_result>>

NextCA ==
    \/ ca_cert_meta
    \/ ReleaseCM

SpecCA == InitCA /\ [][NextCA]_vars

\* C35: ca_cert_meta(db, name, cert_type) that ends without an error returns
\* a Certificate with a row_id: the existing one when the rows of the CA are
\* in the store, and, when it has just inserted them, the CM with the
\* row_id and cert_type of the inserted rows
C35_CaCertMetaReturnsStoredCM ==
    (ca_result.name # NoneStr /\ ca_result.returned # "AssertionError") =>
        /\ ca_result.returned = "cm"
        /\ ca_result.cm.row_id # None
        /\ ca_result.cm.row_id = ca_db[ca_result.name].row_id
        /\ ca_result.cm.cert_type = ca_db[ca_result.name].cert_type

\* ---------------------------------------------------------------------------
\* deployCerts: the directories files are uploaded into (certdist.py lines
\* 85-112).  A path is kept as PurePath keeps it: whether it is absolute,
\* and its components.
\* ---------------------------------------------------------------------------

Path(abs, parts) == [abs |-> abs, parts |-> parts]

\* PurePath(a, b): a later absolute segment replaces what came before it, an
\* empty segment adds nothing
PurePath(a, b) ==
    IF b.abs THEN b ELSE Path(a.abs, a.parts \o b.parts)

\* pcp.format(cert.name) (lines 105-107) for the subject name 'www.ex.org'
FormatPath(pcp) ==
    Path(pcp.abs, [i \in 1..Len(pcp.parts) |->
                      IF pcp.parts[i] = "{}" THEN "www.ex.org"
                      ELSE pcp.parts[i]])

\* the values of disthost.jailroot, of a jail name ('' without jails, line
\* 85), of place.cert_path and of place.key_path (None if not set)
Jailroots == {Path(FALSE, <<>>), Path(FALSE, <<"usr", "jails">>),
              Path(TRUE, <<"usr", "jails">>)}
JailNames == {Path(FALSE, <<>>), Path(FALSE, <<"www">>),
              Path(FALSE, <<"db">>)}
CertPaths == {Path(FALSE, <<"etc", "ssl">>), Path(TRUE, <<"etc", "ssl">>),
              Path(FALSE, <<"home", "{}">>)}
KeyPaths == {Path(FALSE, <<>>), Path(FALSE, <<"etc", "ssl", "private">>),
             Path(TRUE, <<"etc", "ssl", "private">>)}

\* nothing computed yet
NoDest == [dest_path |-> Path(FALSE, <<>>), dest_dir |-> Path(FALSE, <<>>),
           key_dest_dir |-> Path(FALSE, <<>>)]

InitPath ==
    /\ IdleDeploy
    /\ IdleAuth
    /\ IdleDM
    /\ IdleActive
    /\ IdleDist
    /\ IdleSaveLoad
    /\ IdleSnap
    /\ IdleLE
    /\ IdleCA
    /\ InitStore
    /\ mem_au = [c \in CMs |-> 1]
    /\ db_au = [c \in CMs |-> 1]
    /\ zone_dirs = {}
    /\ p_args \in [jailroot : Jailroots, jail : JailNames,
                   cert_path : CertPaths, key_path : KeyPaths]
    /\ p_dest = NoDest

\* lines 87-88: jailroot counts with a jail only; dest_path
DestPath(jailroot, jail) ==
    PurePath(PurePath(Path(TRUE, <<>>),
                      IF jail # Path(FALSE, <<>>) THEN jailroot
                      ELSE Path(FALSE, <<>>)),
             jail)

\* lines 85-112: one place of one jail: dest_path, dest_dir, and
\* key_dest_dir if place.key_path is set
DestDirs ==
    /\ UNCHANGED nonPathVars
    /\ p_dest = NoDest
    /\ LET dest_path == DestPath(p_args.jailroot, p_args.jail)
           pcp == IF \E i \in 1..Len(p_args.cert_path.parts) :
                        p_args.cert_path.parts[i] = "{}"
                  THEN FormatPath(p_args.cert_path)
                  ELSE p_args.cert_path
       IN  p_dest' = [dest_path |-> dest_path,
                      dest_dir |-> PurePath(dest_path, pcp),
                      key_dest_dir |->
                          IF p_args.key_path # Path(FALSE, <<>>)
                          THEN PurePath(dest_path, p_args.key_path)
                          ELSE PurePath(dest_path, pcp)]
    /\ UNCHANGED p_args

NextPath ==
    \/ DestDirs

SpecPath == InitPath /\ [][NextPath]_vars

\* C36: for a place deployed into a non-empty jail, every directory a file
\* is uploaded into lies under the jail's root '/' + jailroot + jail, for
\* every cert_path and key_path, also one that starts with '/'; for an
\* empty jail the jailroot is not part of the destination
C36_UploadsStayInsideJail ==
    p_dest # NoDest =>
        LET root == PurePath(PurePath(Path(TRUE, <<>>), p_args.jailroot),
                             p_args.jail)
            Under(dir) ==
                /\ dir.abs
                /\ Len(dir.parts) >= Len(root.parts)
                /\ SubSeq(dir.parts, 1, Len(root.parts)) = root.parts
        IN  /\ p_args.jail # Path(FALSE, <<>>) =>
                  /\ Under(p_dest.dest_dir)
                  /\ Under(p_dest.key_dest_dir)
            /\ p_args.jail = Path(FALSE, <<>>) =>
                  p_dest.dest_path = Path(TRUE, <<>>)

\* ---------------------------------------------------------------------------
\* issue_LE_cert run after run for one cert meta: every run is a process of
\* its own that loads authorized_until from the store (cert.py line 323)
\* ---------------------------------------------------------------------------

\* the cert meta has never been authorized when the first run starts
InitIssueRuns ==
    /\ InitIssue
    /\ i_au = None
    /\ i_now = 1

\* a later run of issue_LE_cert for the same cert meta, at a later time;
\* done and failed keep what the last authorization run found until
\* _authorize sets them anew (line 271)
NextRun ==
    /\ i_pc \in {"return True", "return False", "raise", "raise at issue"}
    /\ UNCHANGED nonAuthVars
    /\ i_now < MaxNow
    /\ \E now \in (i_now + 1)..MaxNow : i_now' = now
    /\ i_pc' = "entry"
    /\ i_au' = db_au[cert_meta]
    /\ mem_au' = db_au
    /\ a_pc' = "idle"
    /\ a_fqdn' = 1
    /\ authz' = <<>>
    /\ zones' = <<>>
    /\ include' = <<>>
    /\ authorized_until' = None
    /\ polls' = 0
    /\ reported' = {}
    /\ a_log' = <<>>
    /\ UNCHANGED <<cert_meta, done, failed, db_au, dnsVars>>

NextIssueRuns ==
    \/ IssueEntry
    \/ NewAuthorization
    \/ WriteChallenges
    \/ AuthUpdateSOA1
    \/ AuthReload1
    \/ Validate
    \/ Poll
    \/ Persist
    \/ Truncate
    \/ AuthUpdateSOA2
    \/ AuthReload2
    \/ AuthorizeReturns
    \/ IssueCertificate
    \/ NextRun

SpecIssueRuns == InitIssueRuns /\ [][NextIssueRuns]_vars

\* C37: across the runs of issue_LE_cert for a cert meta, issuance is
\* requested only if every FQDN reached 'valid' in the last authorization
\* run: a run in which an FQDN failed leaves no authorized_until that lets a
\* later run skip the authorization
C37_IssuanceNeedsAllValid ==
    i_pc = "issue_certificate" =>
        /\ failed = {}
        /\ done = Range(FQDNs)


\* ------------------------------------------------------------------------
\* issue_LE.py lines 240-278 with cert.py lines 501-519: the challenge
\* records come from zone_and_FQDN_from_altnames, which leaves out the fqdns
\* without a zone directory; the loop of line 276 validates every fqdn of
\* FQDNs.
\* ------------------------------------------------------------------------
\* C38: when validate_authorization has just been called for an fqdn, the
\* include file of some zone holds the _acme-challenge TXT record of that
\* fqdn and the name server has been reloaded since the include files were
\* written.
C38_ValidatedAfterRecordPublished ==
    a_pc = "poll" =>
        /\ \E z \in DOMAIN include :
              \E i \in 1..Len(include[z]) :
                  include[z][i] = [rr |-> <<"_acme-challenge">> \o FQDNs[a_fqdn],
                                   txt |-> TxtRecord(FQDNs[a_fqdn])]
        /\ \E i, j \in 1..Len(a_log) :
              /\ i < j
              /\ a_log[i].e = "write includes"
              /\ a_log[j].e = "reload"


\* ------------------------------------------------------------------------
\* cert.py lines 843-873 and 1003-1036: the hash registry
\* CertKeyStore._cert_key_stores and the cksd maps of the CertInstances
\* ------------------------------------------------------------------------
\* C39: the hash registry and the cksd maps agree: every registered
\* CertKeyStore is the entry of its CertInstance's cksd under its
\* algorithm, and every cksd entry is registered under its hash (so that a
\* store_cert_key for an algorithm already present has not replaced the
\* CKS).
C39_RegistryAndCksdAgree ==
    /\ \A h \in Hashes :
          cert_key_stores[h] # None =>
              LET cks == cks_objs[cert_key_stores[h]]
              IN  /\ cks.ci # None
                  /\ cksd[cks.ci][cks.algo] = cert_key_stores[h]
    /\ \A r \in 1..MaxRows :
          \A algo \in DOMAIN cksd[r] :
              cksd[r][algo] # None =>
                  cert_key_stores[cks_objs[cksd[r][algo]].hash] =
                      cksd[r][algo]


\* ------------------------------------------------------------------------
\* cert.py lines 442-454 and 779-794: cm.delete_instance(ci)
\* ------------------------------------------------------------------------
\* a row that DELETE has removed; ids come from a sequence and are not
\* given again, so the place of the row is kept
DeletedRow == [cm |-> NoneStr, ca_cert_ci_id |-> None]

\* the instances no other CertInstances row names as its CAcert
Deletable(name) ==
    {r \in Range(cert_instances[name]) :
        \A o \in 1..Len(db_ci) : db_ci[o].ca_cert_ci_id # r}

\* lines 442-454: the assertion of line 448 holds for a ci of
\* cm.cert_instances; ci._delete() deletes the CertInstances row (lines
\* 648-651, 789-790) and with it the CertKeyData rows of the instance;
\* line 452 takes ci out of cm.cert_instances.  The CertKeyStores of ci are
\* values of CertKeyStore._cert_key_stores (line 1030), so that no
\* CertKeyStore.__del__ (lines 1032-1036) runs.
delete_instance ==
    /\ UNCHANGED nonDMVars
    /\ \E name \in {n \in Names : all_CMs[n] # None} :
          \E ci \in Deletable(name) :
              /\ db_ci' = [db_ci EXCEPT ![ci] = DeletedRow]
              /\ db_ckd' = [i \in 1..Len(db_ckd) |->
                               IF db_ckd[i].ci = ci
                               THEN [db_ckd[i] EXCEPT !.ci = None]
                               ELSE db_ckd[i]]
              /\ cert_instances' =
                     [cert_instances EXCEPT ![name] =
                         SelectSeq(@, LAMBDA r : r # ci)]
              /\ last_call' = Outcome("delete_instance", name, Mem)
    /\ UNCHANGED <<all_CMs, n_objs, ca_cert_ci, cksd, cert_key_stores,
                   cks_objs, returned, new_cis>>

NextDelete ==
    \/ create_instance
    \/ NewCertInstance
    \/ store_cert_key
    \/ delete_instance

SpecDelete == InitCI /\ [][NextDelete]_vars

\* C40: of a deleted instance nothing remains: it is in no
\* cm.cert_instances, it has no CertKeyData row, and no CertKeyStore of it
\* is in the hash registry (so that a CertKeyStore for the same certificate
\* can be created again).
C40_NothingRemainsOfDeletedInstance ==
    \A ci \in 1..Len(db_ci) :
        db_ci[ci] = DeletedRow =>
            /\ ci \notin LoadedCIs
            /\ \A i \in 1..Len(db_ckd) : db_ckd[i].ci # ci
            /\ \A h \in Hashes :
                  cert_key_stores[h] # None =>
                      cks_objs[cert_key_stores[h]].ci # ci

====
